---- MODULE Spec2Model ----
(***************************************************************************)
(* A model of the edit transaction engine of Truth.Document                *)
(* (src/Truth/core/phases/file/Document.ts).                               *)
(*                                                                         *)
(* One document is modelled.  Its lines are statements; a statement is     *)
(* identified by the VersionStamp it took at construction and carries the  *)
(* text it was parsed from.  Line numbers of the source are 0-based, the   *)
(* sequences of the model are 1-based: line n is statements[n + 1].        *)
(***************************************************************************)
EXTENDS Integers, Sequences, FiniteSets, TLC

\* Longest document the initial state may hold.
MaxLen == 2

\* Number of mutator calls (delete, insert, update) made over a behaviour.
MaxCalls == 2

\* The same, over a behaviour that starts in InitFew.
FewCalls == 1

\* The longest document asked for parents and ancestries.
MaxTree == 4

\* The longest document whose phrases are kept.
MaxGraphLen == 3

\* The most hypothetical phrases the lookups of a document make.
MaxHypothetical == 1

\* The longest line parsed.
MaxLine == 3

\* The length of the documents of three levels.
MaxDeep == 3

\* The longest data of a writer.
MaxData == 3

\* The most calls made on a writer.
MaxWriterCalls == 4

\* The largest smallDataSize and verySmallDataSize of a writer.
MaxSmallData == 2

\* The deepest nesting of transaction calls.
MaxDepth == 2

VARIABLES
    statements,     \* Document.statements
    disposed,       \* stamps of the statements whose isDisposed flag is set
    clock,          \* the counter behind VersionStamp.next()
    version,        \* Document._version
    inEdit,         \* Document.inEdit
    uriStatements,  \* Document.uriStatements
    dependencies,   \* Document._dependencies (documents named by their URI)
    dependents,     \* _dependents of the other documents: URI -> referrers
    loaded,         \* URIs of the documents held by the program
    faults,         \* faults reported by updateReferences: <<type, stamp>>
    events,         \* causes published through program.cause, in order
    pc,             \* position of the running edit()
    pendingDel,     \* deletedUriSmts of the running edit()
    pendingAdd,     \* addedUriSmts of the running edit()
    last,           \* the step taken last
    budget,         \* mutator calls still allowed (bounds the behaviours)
    tx,             \* history of the running / last transaction
    docs,           \* the documents of the program, by URI
    tasks,          \* the document creations and reference resolutions under way
    loaderCalls,    \* stamps of the statements addDocumentFromUri was called for
    failedLoads,    \* stamps of the statements whose load answered an error
    answer,         \* the last answer of a query or of a parser
    graph,          \* the phrases of the document and the verification queue
    writer          \* a writer of Backer, its placeholder and its file

vars == <<statements, disposed, clock, version, inEdit, uriStatements,
          dependencies, dependents, loaded, faults, events, pc, pendingDel,
          pendingAdd, last, budget, tx, docs, tasks, loaderCalls, failedLoads,
          answer, graph, writer>>

----------------------------------------------------------------------------
\* Statements

\* The texts a line may hold: a declaration, a URI reference, an indented
\* declaration, an empty line.
Lines == {"A", "http://u", " B", ""}

\* Statement.indent: the count of leading whitespace (scanner.readWhitespace).
RECURSIVE Indent(_)
Indent(text) ==
    IF Len(text) > 0 /\ SubSeq(text, 1, 1) \in {" ", "\t"}
    THEN 1 + Indent(SubSeq(text, 2, Len(text)))
    ELSE 0

\* StatementFlags.isWhitespace: nothing follows the leading whitespace.
IsWhitespaceText(text) == Indent(text) = Len(text)

\* StatementFlags.isComment: none of the texts used here is a comment.
IsCommentText(text) == FALSE

\* The texts that parse as a URI: the reference of the edit transactions
\* and the URIs of the documents of the program.
UriTexts == {"http://u", "http://x", "http://y"}

\* StatementFlags.hasUri and the store form of the URI.
HasUriText(text) == text \in UriTexts

\* VersionStamp.next(): the next value of a counter shared by the program.
VersionStampNext(clk) == clk + 1

\* new Statement(document, text): the statement takes a stamp.
Statement(text, stamp) == [stamp |-> stamp, text |-> text]

NoSmt == [stamp |-> 0, text |-> ""]

isNoop(smt) == IsCommentText(smt.text) \/ IsWhitespaceText(smt.text)

indentOf(smt) == Indent(smt.text)

hasUri(smt) == HasUriText(smt.text)

uriOf(smt) == smt.text

\* Statement.line, lines 1936-1944: -1 for a disposed statement; for any
\* other one the getter calls document.lineNumberOf, a method that Document
\* does not define (it defines getLineNumber), and the call throws TypeError.
StatementLine(stmts, disp, smt) ==
    IF smt.stamp \in disp
    THEN [threw |-> FALSE, line |-> -1]
    ELSE [threw |-> TRUE, line |-> -1]

----------------------------------------------------------------------------
\* Sequence helpers

Min(a, b) == IF a < b THEN a ELSE b

Last(s) == s[Len(s)]

Range(s) == {s[i] : i \in 1..Len(s)}

\* Array.prototype.indexOf, 0-based, -1 when absent.
IndexOf(s, x) ==
    IF \E i \in 1..Len(s) : s[i] = x
    THEN (CHOOSE i \in 1..Len(s) : s[i] = x /\ \A j \in 1..(i - 1) : s[j] # x) - 1
    ELSE -1

RECURSIVE Concat(_)
Concat(ss) == IF Len(ss) = 0 THEN <<>> ELSE Head(ss) \o Concat(Tail(ss))

\* DocumentUtil.applyBounds for the indexes used here (0 and above): the
\* index clamped to the lines of the document.
applyBounds(index, length) ==
    IF index = 0 \/ length = 0 THEN 0 ELSE Min(index, length - 1)

----------------------------------------------------------------------------
\* Navigation by indentation

DocParent == [kind |-> "doc", smt |-> NoSmt]
NullParent == [kind |-> "null", smt |-> NoSmt]
SmtParent(smt) == [kind |-> "smt", smt |-> smt]

\* The parent of every statement is the document.
getParentAlwaysDocument(stmts, line) == DocParent

\* Document.getParent(line)
getParent(stmts, line) ==
    LET at == applyBounds(line, Len(stmts))
        smt == stmts[at + 1]
        cands == {i \in 0..(at - 1) :
                    /\ ~isNoop(stmts[i + 1])
                    /\ indentOf(stmts[i + 1]) < indentOf(smt)}
    IN  IF isNoop(smt) THEN NullParent
        ELSE IF indentOf(smt) = 0 THEN DocParent
        ELSE IF at = 0 THEN DocParent
        ELSE IF cands = {} THEN DocParent
        ELSE SmtParent(stmts[(CHOOSE i \in cands : \A j \in cands : j <= i) + 1])

\* The loop of getAncestry, lines 352-366, about to read line idx.
RECURSIVE ancestryLoop(_, _, _, _)
ancestryLoop(stmts, idx, indentToBeat, ancestry) ==
    IF idx < 0 THEN ancestry
    ELSE LET currentStatement == stmts[idx + 1]
             beats == indentOf(currentStatement) < indentToBeat
         IN  IF isNoop(currentStatement)
             THEN ancestryLoop(stmts, idx - 1, indentToBeat, ancestry)
             ELSE IF indentOf(currentStatement) = 0
             THEN IF beats THEN <<currentStatement>> \o ancestry ELSE ancestry
             ELSE ancestryLoop(stmts, idx - 1,
                               IF beats THEN indentOf(currentStatement)
                               ELSE indentToBeat,
                               IF beats THEN <<currentStatement>> \o ancestry
                               ELSE ancestry)

\* Document.getAncestry(statement), lines 335-371, for the statement of a
\* line of the document.
getAncestry(stmts, line) ==
    LET startingIndex == applyBounds(line, Len(stmts))
        smt == stmts[startingIndex + 1]
        ancestry == ancestryLoop(stmts, startingIndex - 1, indentOf(smt), <<smt>>)
    IN  IF indentOf(smt) = 0 THEN <<>>
        ELSE IF startingIndex = 0 THEN <<>>
        ELSE SubSeq(ancestry, 1, Len(ancestry) - 1)

\* Document.getParentFromPosition(virtualLine, virtualOffset)
getParentFromPosition(stmts, virtualLine, virtualOffset) ==
    LET line == applyBounds(virtualLine, Len(stmts))
        cands == {i \in 0..(line - 1) :
                    /\ ~isNoop(stmts[i + 1])
                    /\ indentOf(stmts[i + 1]) < virtualOffset}
    IN  IF virtualLine = 0 \/ virtualOffset < 1 \/ Len(stmts) = 0 THEN DocParent
        ELSE IF cands = {} THEN DocParent
        ELSE SmtParent(stmts[(CHOOSE i \in cands : \A j \in cands : j <= i) + 1])

\* Document.hasDescendants(statement), for a statement at line idx.
hasDescendants(stmts, idx) ==
    LET smt == stmts[idx + 1]
        after == {i \in (idx + 1)..(Len(stmts) - 1) : ~isNoop(stmts[i + 1])}
    IN  IF isNoop(smt) THEN FALSE
        ELSE IF after = {} THEN FALSE
        ELSE indentOf(stmts[(CHOOSE i \in after : \A j \in after : i <= j) + 1])
                > indentOf(smt)

----------------------------------------------------------------------------
\* The mutator: calls made by the callback of edit()

RawDelete(at, count) == [op |-> "delete", at |-> at, count |-> count, text |-> ""]
RawInsert(text, at) == [op |-> "insert", at |-> at, count |-> 0, text |-> text]
RawUpdate(text, at) == [op |-> "update", at |-> at, count |-> 0, text |-> text]

\* The calls a callback may make on a document of len lines: positions are
\* in range, delete(0, 0) stands for the deletes of no line.
RawCallsAt(len) ==
    {RawDelete(0, 0)}
    \cup UNION {{RawDelete(at, n) : n \in 1..(len - at)} : at \in 0..(len - 1)}
    \cup {RawInsert(t, at) : t \in Lines, at \in 0..len}
    \cup {RawUpdate(t, at) : t \in Lines, at \in 0..(len - 1)}

\* The length of the document once the call is applied.
LenAfter(len, raw) ==
    IF raw.op = "delete" THEN len - raw.count
    ELSE IF raw.op = "insert" THEN len + 1
    ELSE len

\* The call sequences of at most n calls, each in range of the document as
\* the calls before it leave it.
RECURSIVE RawLists(_, _)
RawLists(len, n) ==
    IF n = 0 THEN {<<>>}
    ELSE {<<>>} \cup
         UNION {{<<raw>> \o rest : rest \in RawLists(LenAfter(len, raw), n - 1)} :
                    raw \in RawCallsAt(len)}

DeleteCall(at, count) == [op |-> "delete", at |-> at, count |-> count, smt |-> NoSmt]
InsertCall(smt, at) == [op |-> "insert", at |-> at, count |-> 0, smt |-> smt]
UpdateCall(smt, at) == [op |-> "update", at |-> at, count |-> 0, smt |-> smt]

\* One call of the mutator handed to the callback: the call is recorded, not
\* applied.  rec = [calls, clock, threw].
RecordCall(stmts, rec, raw) ==
    IF rec.threw THEN rec
    ELSE IF raw.op = "delete" THEN
        IF raw.count > 0
        THEN [rec EXCEPT !.calls = Append(@, DeleteCall(raw.at, raw.count))]
        ELSE rec
    ELSE IF raw.op = "insert" THEN
        [rec EXCEPT
            !.calls = Append(@, InsertCall(
                Statement(raw.text, VersionStampNext(rec.clock)), raw.at)),
            !.clock = VersionStampNext(@)]
    ELSE
        \* this.read(boundAt) of a document without lines is undefined, and
        \* reading its sourceText throws
        IF Len(stmts) = 0 THEN [rec EXCEPT !.threw = TRUE]
        ELSE IF stmts[applyBounds(raw.at, Len(stmts)) + 1].text # raw.text
        THEN [rec EXCEPT
                !.calls = Append(@, UpdateCall(
                    Statement(raw.text, VersionStampNext(rec.clock)), raw.at)),
                !.clock = VersionStampNext(@)]
        ELSE rec

RECURSIVE RecordAll(_, _, _)
RecordAll(stmts, rec, raws) ==
    IF Len(raws) = 0 THEN rec
    ELSE RecordAll(stmts, RecordCall(stmts, rec, Head(raws)), Tail(raws))

\* editFn(mutator), lines 793-816
editFn(stmts, clk, raws) ==
    RecordAll(stmts, [calls |-> <<>>, clock |-> clk, threw |-> FALSE], raws)

----------------------------------------------------------------------------
\* editAtomic: the callback that turns range edits into mutator calls

\* String.prototype.slice(from, to) and slice(from): an index past the end is
\* the end, a negative index counts from the end.
SliceIndex(text, i) ==
    IF i >= 0 THEN Min(i, Len(text))
    ELSE IF Len(text) + i > 0 THEN Len(text) + i ELSE 0

Slice(text, from, to) == SubSeq(text, SliceIndex(text, from) + 1, SliceIndex(text, to))

SliceFrom(text, from) == SubSeq(text, SliceIndex(text, from) + 1, Len(text))

\* String.prototype.split("\n")
RECURSIVE Split(_)
Split(text) ==
    IF \E k \in 1..Len(text) : SubSeq(text, k, k) = "\n"
    THEN LET at == CHOOSE k \in 1..Len(text) :
                    /\ SubSeq(text, k, k) = "\n"
                    /\ \A j \in 1..(k - 1) : SubSeq(text, j, j) # "\n"
         IN  <<SubSeq(text, 1, at - 1)>> \o Split(SubSeq(text, at + 1, Len(text)))
    ELSE <<text>>

\* Array.prototype.join("\n")
RECURSIVE Join(_)
Join(texts) ==
    IF Len(texts) = 0 THEN ""
    ELSE IF Len(texts) = 1 THEN texts[1]
    ELSE texts[1] \o "\n" \o Join(Tail(texts))

\* segments[i] in a concatenation: undefined prints as "undefined".
SegmentAt(segments, i) ==
    IF i < Len(segments) THEN segments[i + 1] ELSE "undefined"

\* An edit of IDocumentEdit with a range, and one without.
RangeEdit(startLine, startChar, endLine, endChar, text) ==
    [hasRange |-> TRUE, startLineNumber |-> startLine, startColumn |-> startChar,
     endLineNumber |-> endLine, endColumn |-> endChar, text |-> text]

NoRangeEdit ==
    [hasRange |-> FALSE, startLineNumber |-> 0, startColumn |-> 0,
     endLineNumber |-> 0, endColumn |-> 0, text |-> ""]

\* lines 1209-1311: the calls the callback makes for one edit with a range
AtomicCallsOf(stmts, editInfo) ==
    LET startLine == editInfo.startLineNumber
        endLine == editInfo.endLineNumber
        startChar == editInfo.startColumn
        endChar == editInfo.endColumn
        startLineText == stmts[applyBounds(startLine, Len(stmts)) + 1].text
        endLineText == stmts[applyBounds(endLine, Len(stmts)) + 1].text
        prefixSegment == Slice(startLineText, 0, startChar)
        suffixSegment == SliceFrom(endLineText, endChar)
        segments == Split(editInfo.text)
        pastCount == endLine - startLine + 1
        presentCount == Len(segments)
        deltaCount == presentCount - pastCount
        insertLines == [i \in 1..Len(segments) |->
            (IF i = 1 THEN prefixSegment ELSE "") \o segments[i]
                \o (IF i = Len(segments) THEN suffixSegment ELSE "")]
    IN  IF deltaCount = 0 /\ pastCount = 1
        THEN <<RawUpdate(prefixSegment \o editInfo.text \o suffixSegment, startLine)>>
        ELSE IF deltaCount = 0
        THEN <<RawUpdate(prefixSegment \o segments[1], startLine)>>
             \o [k \in 1..pastCount |->
                    RawUpdate(prefixSegment \o SegmentAt(segments, startLine + k - 1)
                                \o suffixSegment, startLine)]
             \o <<RawUpdate(Last(segments) \o suffixSegment, endLine)>>
        ELSE IF /\ deltaCount < 0
                /\ startChar = Len(startLineText)
                /\ endChar = Len(endLineText)
        THEN <<RawDelete(startLine + 1, -deltaCount)>>
        ELSE IF deltaCount < 0 /\ startChar + endChar = 0
        THEN <<RawDelete(startLine, -deltaCount)>>
        ELSE IF /\ deltaCount > 0
                /\ startChar = Len(startLineText)
                /\ segments[1] = ""
        THEN [k \in 1..(Len(segments) - 1) |-> RawInsert(segments[k + 1], startLine + k)]
        ELSE IF deltaCount > 0 /\ startChar = 0 /\ Last(segments) = ""
        THEN [k \in 1..(Len(segments) - 1) |-> RawInsert(segments[k], startLine + k - 1)]
        ELSE <<RawDelete(startLine, endLine - startLine + 1)>>
             \o [k \in 1..Len(insertLines) |-> RawInsert(insertLines[k], startLine + k - 1)]

\* lines 1202-1312: the callback of editAtomic over the edits, up to the
\* first edit without a range, where it throws TypeError.  cb = [raws, threw].
RECURSIVE AtomicCallback(_, _, _)
AtomicCallback(stmts, cb, edits) ==
    IF Len(edits) = 0 THEN cb
    ELSE IF ~Head(edits).hasRange THEN [cb EXCEPT !.threw = TRUE]
    ELSE AtomicCallback(stmts,
            [cb EXCEPT !.raws = @ \o AtomicCallsOf(stmts, Head(edits))],
            Tail(edits))

----------------------------------------------------------------------------
\* The mutations.  m = [s, del, add, disp, removed]: the statements, the
\* deleted and added URI statements, the stamps disposed, and the statements
\* returned by doDelete.

Mutation(stmts) ==
    [s |-> stmts, del |-> <<>>, add |-> <<>>, disp |-> {}, removed |-> <<>>]

UriOnly(smts) == SelectSeq(smts, hasUri)

doDelete(m, call) ==
    LET at == applyBounds(call.at, Len(m.s))
        to == Min(at + call.count, Len(m.s))
        smts == SubSeq(m.s, at + 1, to)
    IN  [m EXCEPT
            !.s = SubSeq(m.s, 1, at) \o SubSeq(m.s, to + 1, Len(m.s)),
            !.del = @ \o UriOnly(smts),
            !.disp = @ \cup {smts[i].stamp : i \in 1..Len(smts)},
            !.removed = @ \o smts]

doInsert(m, call) ==
    LET at == applyBounds(call.at, Len(m.s))
    IN  [m EXCEPT
            !.s = IF call.at >= Len(m.s)
                  THEN Append(m.s, call.smt)
                  ELSE SubSeq(m.s, 1, at) \o <<call.smt>> \o SubSeq(m.s, at + 1, Len(m.s)),
            !.add = @ \o UriOnly(<<call.smt>>)]

doUpdate(m, call) ==
    LET at == applyBounds(call.at, Len(m.s))
        existing == m.s[at + 1]
    IN  [m EXCEPT
            !.s = [m.s EXCEPT ![at + 1] = call.smt],
            !.del = @ \o UriOnly(<<existing>>),
            !.add = @ \o UriOnly(<<call.smt>>),
            !.disp = @ \cup {existing.stamp}]

doCall(m, call) ==
    IF call.op = "delete" THEN doDelete(m, call)
    ELSE IF call.op = "insert" THEN doInsert(m, call)
    ELSE doUpdate(m, call)

RECURSIVE doCalls(_, _)
doCalls(m, calls) ==
    IF Len(calls) = 0 THEN m ELSE doCalls(doCall(m, Head(calls)), Tail(calls))

----------------------------------------------------------------------------
\* Causes

\* getLineNumber of each statement of smts in the document stmts.
LinesOf(stmts, smts) == [k \in 1..Len(smts) |-> IndexOf(stmts, smts[k])]

\* new CauseInvalidate(document, statements, indexes), published while the
\* document holds stmts; lines records where the statements then are.
CauseInvalidate(stmts, smts, indexes) ==
    [type |-> "Invalidate", smts |-> smts, indexes |-> indexes,
     lines |-> LinesOf(stmts, smts)]

\* new CauseRevalidate(document, statements, indexes)
CauseRevalidate(stmts, smts, indexes) ==
    [type |-> "Revalidate", smts |-> smts, indexes |-> indexes,
     lines |-> LinesOf(stmts, smts)]

\* new CauseEditComplete(document)
CauseEditComplete ==
    [type |-> "EditComplete", smts |-> <<>>, indexes |-> <<>>, lines |-> <<>>]

----------------------------------------------------------------------------
\* The changeset algorithm of edit(), lines 832-1168.  Its result is
\* [m, events, path, threw]: the mutation applied, the causes published, the
\* path taken and whether it threw.

IifeResult(m, evs, path) == [m |-> m, events |-> evs, path |-> path, threw |-> FALSE]

IifeThrew(stmts) ==
    [m |-> Mutation(stmts), events |-> <<>>, path |-> "threw", threw |-> TRUE]

hasOp(calls, op) == \E i \in 1..Len(calls) : calls[i].op = op

hasMixed(calls) ==
    \/ hasOp(calls, "insert") /\ hasOp(calls, "update")
    \/ hasOp(calls, "insert") /\ hasOp(calls, "delete")
    \/ hasOp(calls, "update") /\ hasOp(calls, "delete")

\* calls.sort((a, b) => a.at - b.at): stable, in place
RECURSIVE InsertByAt(_, _)
InsertByAt(sorted, call) ==
    IF Len(sorted) = 0 THEN <<call>>
    ELSE IF Head(sorted).at <= call.at
         THEN <<Head(sorted)>> \o InsertByAt(Tail(sorted), call)
         ELSE <<call>> \o sorted

RECURSIVE SortByAt(_)
SortByAt(calls) ==
    IF Len(calls) = 0 THEN <<>>
    ELSE InsertByAt(SortByAt(SubSeq(calls, 1, Len(calls) - 1)), Last(calls))

\* .filter((call, i) => i >= calls.length - 1 || call.at !== calls[i + 1].at)
RECURSIVE PruneOverridden(_)
PruneOverridden(sorted) ==
    IF Len(sorted) <= 1 THEN sorted
    ELSE IF sorted[1].at # sorted[2].at
         THEN <<sorted[1]>> \o PruneOverridden(Tail(sorted))
         ELSE PruneOverridden(Tail(sorted))

\* lines 906-915
noStructuralChanges(oldStatements, newStatements) ==
    \A k \in 1..Len(oldStatements) :
        \/ indentOf(oldStatements[k]) = indentOf(newStatements[k])
        \/ isNoop(oldStatements[k]) /\ isNoop(newStatements[k])

\* lines 919-921, 974
someOp(smts) == \E k \in 1..Len(smts) : ~isNoop(smts[k])

\* UpdateInvalidate, carrying the replacements instead of the old statements.
UpdateInvalidateNew(stmts, oldStatements, newStatements, indexes) ==
    IF someOp(oldStatements) \/ someOp(newStatements)
    THEN <<CauseInvalidate(stmts, newStatements, indexes)>>
    ELSE <<>>

\* lines 923-930
UpdateInvalidate(stmts, oldStatements, newStatements, indexes) ==
    IF someOp(oldStatements) \/ someOp(newStatements)
    THEN <<CauseInvalidate(stmts, oldStatements, indexes)>>
    ELSE <<>>

\* lines 936-943
UpdateRevalidate(stmts, oldStatements, newStatements, indexes) ==
    IF someOp(oldStatements) \/ someOp(newStatements)
    THEN <<CauseRevalidate(stmts, newStatements, indexes)>>
    ELSE <<>>

\* The pure-update fast path, lines 895-947, for the sorted calls.
UpdatePath(stmts, sorted) ==
    LET updateCalls == PruneOverridden(sorted)
        oldStatements == [k \in 1..Len(updateCalls) |-> stmts[updateCalls[k].at + 1]]
        newStatements == [k \in 1..Len(updateCalls) |-> updateCalls[k].smt]
        indexes == [k \in 1..Len(updateCalls) |-> updateCalls[k].at]
        m == doCalls(Mutation(stmts), updateCalls)
    IN  IifeResult(m,
            UpdateInvalidate(stmts, oldStatements, newStatements, indexes)
            \o UpdateRevalidate(m.s, oldStatements, newStatements, indexes),
            "update")

UpdatePathApplies(stmts, sorted) ==
    LET updateCalls == PruneOverridden(sorted)
    IN  noStructuralChanges(
            [k \in 1..Len(updateCalls) |-> stmts[updateCalls[k].at + 1]],
            [k \in 1..Len(updateCalls) |-> updateCalls[k].smt])

\* lines 960-977: the lines read for each delete call, and the index pushed
\* for each of them.
DeadLines(deleteCalls) ==
    Concat([c \in 1..Len(deleteCalls) |->
        [i \in 1..deleteCalls[c].count |-> deleteCalls[c].at + (i - 1)]])

DeadIndexes(deleteCalls) ==
    Concat([c \in 1..Len(deleteCalls) |->
        [i \in 1..deleteCalls[c].count |-> i - 1]])

\* deadStatements once the loop is left: emptied when a statement read has
\* descendants.
DeadStatements(stmts, deleteCalls) ==
    LET at == DeadLines(deleteCalls)
    IN  IF \E k \in 1..Len(at) : hasDescendants(stmts, at[k])
        THEN <<>>
        ELSE [k \in 1..Len(at) |-> stmts[at[k] + 1]]

\* lines 984-988
DeleteInvalidate(stmts, deadStatements, deadIndexes) ==
    IF someOp(deadStatements)
    THEN <<CauseInvalidate(stmts, deadStatements, deadIndexes)>>
    ELSE <<>>

\* DeleteRevalidate, without the test of hasOpStatements.
DeleteRevalidateAlways(stmts, deadStatements) ==
    <<CauseRevalidate(stmts, <<>>, <<>>)>>

\* lines 996-997
DeleteRevalidate(stmts, deadStatements) ==
    IF someOp(deadStatements)
    THEN <<CauseRevalidate(stmts, <<>>, <<>>)>>
    ELSE <<>>

\* The pure-delete fast path, lines 952-1001.
DeletePath(stmts, deleteCalls) ==
    LET deadStatements == DeadStatements(stmts, deleteCalls)
        m == doCalls(Mutation(stmts), deleteCalls)
    IN  IifeResult(m,
            DeleteInvalidate(stmts, deadStatements, DeadIndexes(deleteCalls))
            \o DeleteRevalidate(m.s, deadStatements),
            "delete")

\* The no-op insert fast path, lines 1006-1014.
InsertPathApplies(insertCalls) ==
    \A i \in 1..Len(insertCalls) : isNoop(insertCalls[i].smt)

InsertPath(stmts, insertCalls) ==
    IifeResult(doCalls(Mutation(stmts), insertCalls), <<>>, "insert")

\* invalidatedParents.set(at, parent): a Map keeps the place of a key it
\* already holds.
MapSet(map, at, parent) ==
    IF \E i \in 1..Len(map) : map[i].at = at
    THEN [i \in 1..Len(map) |->
            IF map[i].at = at THEN [at |-> at, parent |-> parent] ELSE map[i]]
    ELSE Append(map, [at |-> at, parent |-> parent])

MapValues(map) == [i \in 1..Len(map) |-> map[i].parent]

MapKeys(map) == [i \in 1..Len(map) |-> map[i].at]

\* One round of the loop of lines 1034-1086.
\* acc = [map, must, threw, done].
ScanCall(stmts, acc, call) ==
    LET atBounded == applyBounds(call.at, Len(stmts))
        found(parent) ==
            IF parent.kind = "smt"
            THEN [acc EXCEPT !.map = MapSet(@, call.at, parent.smt)]
            ELSE IF parent.kind = "doc"
            THEN [acc EXCEPT !.must = TRUE, !.done = TRUE]
            ELSE [acc EXCEPT !.threw = TRUE, !.done = TRUE]
        positioned ==
            LET parent == getParentFromPosition(stmts, call.at, indentOf(call.smt))
            IN  IF parent.kind = "smt"
                THEN [acc EXCEPT !.map = MapSet(@, call.at, parent.smt)]
                ELSE [acc EXCEPT !.must = TRUE, !.done = TRUE]
    IN  IF acc.done THEN acc
        ELSE IF call.op = "delete" THEN
            \* this.statements[atBounded] of a document without lines is
            \* undefined, and reading its isNoop throws
            IF Len(stmts) = 0 THEN [acc EXCEPT !.threw = TRUE, !.done = TRUE]
            ELSE IF isNoop(stmts[atBounded + 1]) THEN acc
            ELSE found(getParent(stmts, atBounded))
        ELSE IF call.op = "insert" THEN
            IF isNoop(call.smt) THEN acc ELSE positioned
        ELSE
            IF Len(stmts) = 0 THEN [acc EXCEPT !.threw = TRUE, !.done = TRUE]
            ELSE IF isNoop(stmts[atBounded + 1]) /\ isNoop(call.smt) THEN acc
            ELSE positioned

RECURSIVE ScanCalls(_, _, _)
ScanCalls(stmts, acc, calls) ==
    IF Len(calls) = 0 THEN acc
    ELSE ScanCalls(stmts, ScanCall(stmts, acc, Head(calls)), Tail(calls))

\* lines 1155-1159: the parents that doDelete removed leave the map.
SurvivingParents(map, removed) ==
    SelectSeq(map, LAMBDA e : \A k \in 1..Len(removed) : removed[k] # e.parent)

\* The general path, lines 1025-1167.  The pruning of lines 1093-1130 fills
\* invalidatedAncestries, a local that nothing reads: it changes neither the
\* map nor the document.
GeneralPath(stmts, calls) ==
    LET scan == ScanCalls(stmts,
                    [map |-> <<>>, must |-> FALSE, threw |-> FALSE, done |-> FALSE],
                    calls)
        parents == IF scan.must THEN <<>> ELSE MapValues(scan.map)
        indexes == IF scan.must THEN <<>> ELSE MapKeys(scan.map)
        m == doCalls(Mutation(stmts), calls)
        surviving == SurvivingParents(scan.map, m.removed)
    IN  IF scan.threw THEN IifeThrew(stmts)
        ELSE IF ~scan.must /\ Len(scan.map) = 0
        THEN IifeResult(Mutation(stmts), <<>>, "none")
        ELSE IifeResult(m,
                <<CauseInvalidate(stmts, parents, indexes),
                  CauseRevalidate(m.s, MapValues(surviving), MapKeys(surviving))>>,
                "general")

\* lines 832-1168.  The sort of the pure-update path is in place: the
\* general path that follows it sees the calls sorted.
Iife(stmts, calls) ==
    LET mixed == hasMixed(calls)
        sorted == IF ~mixed /\ hasOp(calls, "update") THEN SortByAt(calls) ELSE calls
    IN  IF ~mixed /\ hasOp(calls, "update") /\ UpdatePathApplies(stmts, sorted)
        THEN UpdatePath(stmts, sorted)
        ELSE IF ~mixed /\ hasOp(calls, "delete")
                /\ Len(DeadStatements(stmts, calls)) > 0
        THEN DeletePath(stmts, calls)
        ELSE IF ~mixed /\ hasOp(calls, "insert") /\ InsertPathApplies(calls)
        THEN InsertPath(stmts, calls)
        ELSE GeneralPath(stmts, sorted)

----------------------------------------------------------------------------
\* The phrase graph

\* The position of the joint " : " in the text of a statement, 0 without one.
JointAt(text) ==
    LET at == {i \in 1..(Len(text) - 2) : SubSeq(text, i, i + 2) = " : "}
    IN  IF at = {} THEN 0 ELSE CHOOSE i \in at : \A j \in at : i <= j

\* The subject of the declaration of a statement: the texts used here hold
\* one declaration, between the indent and the joint.
DeclarationOf(smt) ==
    LET joint == JointAt(smt.text)
    IN  SubSeq(smt.text, indentOf(smt) + 1,
               IF joint = 0 THEN Len(smt.text) ELSE joint - 1)

\* statement.annotations mapped to their subjects: the one term after the
\* joint, none without a joint.
AnnotationsOf(smt) ==
    LET joint == JointAt(smt.text)
    IN  IF joint = 0 THEN <<>>
        ELSE <<SubSeq(smt.text, joint + 3, Len(smt.text))>>

\* Term.from(text).id: the terms take their ids in this order.
Terms == <<"A", "B", "X", "Y", "http://u">>

TermId(term) == IndexOf(Terms, term)

RECURSIVE InsertById(_, _)
InsertById(sorted, term) ==
    IF Len(sorted) = 0 THEN <<term>>
    ELSE IF TermId(term) < TermId(Head(sorted)) THEN <<term>> \o sorted
    ELSE <<Head(sorted)>> \o InsertById(Tail(sorted), term)

RECURSIVE SortById(_)
SortById(terms) ==
    IF Len(terms) = 0 THEN <<>>
    ELSE InsertById(SortById(SubSeq(terms, 1, Len(terms) - 1)), Last(terms))

RECURSIVE JoinComma(_)
JoinComma(terms) ==
    IF Len(terms) = 0 THEN ""
    ELSE IF Len(terms) = 1 THEN Head(terms)
    ELSE Head(terms) \o "," \o JoinComma(Tail(terms))

\* Phrase.getClarifierKey(clarifiers), lines 235-246: the terms stand for
\* their ids in the key.
getClarifierKey(clarifiers) ==
    IF Len(clarifiers) = 0 THEN "" ELSE JoinComma(SortById(clarifiers))

\* The phrase at the root of a document (first overload of the constructor,
\* lines 266-271).  The phrases of a document are kept in the order of their
\* construction; a phrase is named by its place in it, the root is 1.
RootPhrase ==
    [parent |-> 1, terminal |-> "", clarifierKey |-> "", isHypothetical |-> FALSE,
     inflatingSpans |-> {}, forwardings |-> {}, isDisposed |-> FALSE]

\* The phrases of a document and the verification queue of its program,
\* before any statement was inflated.
NoGraph == [phrases |-> <<RootPhrase>>, queue |-> {}, inflated |-> FALSE]

\* forwardings.get(subject, clarifierKey): 0 stands for undefined.
forwardingsGet(g, id, subject, clarifierKey) ==
    LET hits == {f \in g.phrases[id].forwardings :
                    f.subject = subject /\ f.key = clarifierKey}
    IN  IF hits = {} THEN 0 ELSE (CHOOSE f \in hits : TRUE).phrase

\* forwardings.delete(subject, clarifierKey)
forwardingsDelete(forwardings, subject, clarifierKey) ==
    {f \in forwardings : ~(f.subject = subject /\ f.key = clarifierKey)}

RECURSIVE Ascending(_)
Ascending(ids) ==
    IF ids = {} THEN <<>>
    ELSE LET least == CHOOSE i \in ids : \A j \in ids : i <= j
         IN  <<least>> \o Ascending(ids \ {least})

\* Phrase.peek(subject, clarifierKey?), lines 456-463: without a key, every
\* phrase forwarded by the subject, in the order they were set.
peek(g, id, subject, clarifierKey, hasKey) ==
    IF ~hasKey
    THEN Ascending({f.phrase : f \in {h \in g.phrases[id].forwardings :
                                            h.subject = subject}})
    ELSE LET result == forwardingsGet(g, id, subject, clarifierKey)
         IN  IF result # 0 THEN <<result>> ELSE <<>>

\* new Phrase(parent, inflator, clarifiers, clarifierKey), lines 272-285 and
\* 300-301: the second overload.  The span of a statement is named by the
\* stamp of the statement.
newPhrase(g, parent, inflator, clarifierKey) ==
    LET id == Len(g.phrases) + 1
        terminal == DeclarationOf(inflator)
        phrase == [parent |-> parent, terminal |-> terminal,
                   clarifierKey |-> clarifierKey, isHypothetical |-> FALSE,
                   inflatingSpans |-> {inflator.stamp}, forwardings |-> {},
                   isDisposed |-> FALSE]
    IN  [g EXCEPT
            !.phrases = Append(
                [@ EXCEPT ![parent].forwardings =
                    forwardingsDelete(@, terminal, clarifierKey)
                    \cup {[subject |-> terminal, key |-> clarifierKey,
                           phrase |-> id]}],
                phrase),
            !.queue = @ \cup {id}]

\* new Phrase(parent, subject), lines 272-276 and 286-294: the third
\* overload, of a hypothetical phrase.
newHypothetical(g, parent, subject) ==
    [g EXCEPT
        !.phrases = Append(@,
            [parent |-> parent, terminal |-> subject, clarifierKey |-> "",
             isHypothetical |-> TRUE, inflatingSpans |-> {},
             forwardings |-> {}, isDisposed |-> FALSE])]

\* Phrase.dispose(), lines 709-722, of a phrase that is no root.
dispose(g, id) ==
    LET this == g.phrases[id]
    IN  [g EXCEPT
            !.phrases = [@ EXCEPT
                ![this.parent].forwardings =
                    forwardingsDelete(@, this.terminal, this.clarifierKey),
                ![id].isDisposed = TRUE],
            !.queue = @ \ {id}]

\* deflate, with the phrase left in place when its last span goes.
deflateKeeps(g, id, inflatingSpan) ==
    [g EXCEPT !.phrases[id].inflatingSpans = @ \ {inflatingSpan}]

\* Phrase.deflate(inflatingSpan), lines 415-423, of a phrase that is not
\* hypothetical.
deflate(g, id, inflatingSpan) ==
    LET less == [g EXCEPT !.phrases[id].inflatingSpans = @ \ {inflatingSpan}]
    IN  IF less.phrases[id].inflatingSpans = {} THEN dispose(less, id) ELSE less

\* span.spines of the declaration of a statement: the declarations of its
\* ancestry and its own; of a statement that is not in the document, its own.
spineOf(stmts, smt) ==
    LET line == IndexOf(stmts, smt)
    IN  IF line = -1 THEN <<smt>> ELSE Append(getAncestry(stmts, line), smt)

\* The loop of lines 203-217 over the spans of a spine that are left, from
\* the phrases as they are given.
RECURSIVE walkSpine(_, _, _)
walkSpine(given, current, spine) ==
    IF Len(spine) = 0 THEN [g |-> given, current |-> current]
    ELSE CHOOSE walked \in
            {LET spineSpan == Head(spine)
                 clarifierKey == getClarifierKey(AnnotationsOf(spineSpan))
                 subject == DeclarationOf(spineSpan)
                 found == forwardingsGet(g, at, subject, clarifierKey)
             IN  IF found # 0
                 THEN walkSpine(g, found, Tail(spine))
                 ELSE walkSpine(newPhrase(g, at, spineSpan, clarifierKey),
                                Len(g.phrases) + 1, Tail(spine))
             : g \in {given}, at \in {current}} : TRUE

\* Phrase.fromSpan(span), lines 194-224: [g, phrases]
fromSpan(g, stmts, smt) ==
    LET walked == walkSpine(g, 1, spineOf(stmts, smt))
    IN  [g |-> walked.g,
         phrases |-> IF walked.current # 1 THEN <<walked.current>> ELSE <<>>]

\* Document.getChildren(statement), lines 473-507, as lines of the document.
RECURSIVE childrenLoop(_, _, _, _, _)
childrenLoop(stmts, idx, breakIndent, childIndent, children) ==
    IF idx >= Len(stmts) THEN children
    ELSE LET currentStatement == stmts[idx + 1]
             indent == Min(indentOf(currentStatement), childIndent)
         IN  IF isNoop(currentStatement)
             THEN childrenLoop(stmts, idx + 1, breakIndent, childIndent, children)
             ELSE IF indentOf(currentStatement) <= breakIndent THEN children
             ELSE childrenLoop(stmts, idx + 1, breakIndent, indent,
                    IF indentOf(currentStatement) <= indent
                    THEN Append(children, idx) ELSE children)

\* getChildren that takes only the statements one indent deeper.
getChildrenOneDeeper(stmts, smt) ==
    childrenLoop(stmts, IndexOf(stmts, smt) + 1, indentOf(smt), indentOf(smt) + 1, <<>>)

\* getChildren(statement) of a statement of the document
getChildren(stmts, smt) ==
    childrenLoop(stmts, IndexOf(stmts, smt) + 1, indentOf(smt), 1000, <<>>)

\* getChildren(null): the top-level statements, breakIndent -1 and
\* startIdx -1 (lines 480-485)
getChildrenOfNull(stmts) == childrenLoop(stmts, 0, -1, 1000, <<>>)

\* Document.eachDescendant(initialStatement, true), lines 624-660, and the
\* declarations Phrase.enumerate yields (lines 165-187): the statements of
\* roots and their descendants that hold a declaration, each once.
RECURSIVE eachDescendant(_, _)
eachDescendant(stmts, smt) ==
    <<smt>> \o Concat([k \in 1..Len(getChildren(stmts, smt)) |->
                        eachDescendant(stmts, stmts[getChildren(stmts, smt)[k] + 1])])

RECURSIVE Unique(_, _)
Unique(smts, visited) ==
    IF Len(smts) = 0 THEN <<>>
    ELSE IF Head(smts) \in visited THEN Unique(Tail(smts), visited)
    ELSE <<Head(smts)>> \o Unique(Tail(smts), visited \cup {Head(smts)})

enumerate(stmts, roots) ==
    LET all == Unique(Concat([k \in 1..Len(roots) |->
                                eachDescendant(stmts, roots[k])]), {})
    IN  SelectSeq(all, LAMBDA smt : ~isNoop(smt))

RECURSIVE deflateEach(_, _, _)
deflateEach(g, stmts, spans) ==
    IF Len(spans) = 0 THEN g
    ELSE CHOOSE after \in
            {deflateEach(IF Len(from.phrases) = 0 THEN from.g
                         ELSE deflate(from.g, from.phrases[1], Head(spans).stamp),
                         stmts, Tail(spans))
             : from \in {fromSpan(g, stmts, Head(spans))}} : TRUE

\* Phrase.deleteRecursive(statements), lines 139-150
deleteRecursive(g, stmts, roots) == deflateEach(g, stmts, enumerate(stmts, roots))

RECURSIVE inflateEach(_, _, _)
inflateEach(g, stmts, spans) ==
    IF Len(spans) = 0 THEN g
    ELSE inflateEach(fromSpan(g, stmts, Head(spans)).g, stmts, Tail(spans))

\* Phrase.createRecursive(statements), lines 155-162
createRecursive(g, stmts, roots) == inflateEach(g, stmts, enumerate(stmts, roots))

\* The loop of lines 100-114 over the terms of the path that are left:
\* [g, current, homograph]
RECURSIVE descend(_, _, _)
descend(given, current, pathTerms) ==
    IF Len(pathTerms) = 0
    THEN [g |-> given, current |-> current, homograph |-> FALSE]
    ELSE CHOOSE down \in
            {LET phrases == peek(g, currentPhrase, Head(pathTerms), "", FALSE)
             IN  IF Len(phrases) = 1
                 THEN descend(g, phrases[1], Tail(pathTerms))
                 ELSE IF Len(phrases) = 0
                 THEN descend(newHypothetical(g, currentPhrase, Head(pathTerms)),
                              Len(g.phrases) + 1, Tail(pathTerms))
                 ELSE [g |-> g, current |-> currentPhrase, homograph |-> TRUE]
             : g \in {given}, currentPhrase \in {current}} : TRUE

NullResult == [kind |-> "null", phrases |-> <<>>]
ArrayResult(phrases) == [kind |-> "array", phrases |-> phrases]
PhraseResult(phrase) == [kind |-> "phrase", phrases |-> <<phrase>>]

\* The loop of lines 96-120 over the root phrases that are left.
RECURSIVE eachRoot(_, _, _, _, _)
eachRoot(g, rootPhrases, pathTerms, clarifier, outPhrases) ==
    IF Len(rootPhrases) = 0 THEN [g |-> g, result |-> ArrayResult(outPhrases)]
    ELSE CHOOSE out \in
            {IF down.homograph
             THEN [g |-> down.g,
                   result |-> IF Len(clarifier) = 0 THEN NullResult
                              ELSE ArrayResult(<<>>)]
             ELSE IF getClarifierKey(clarifier) # ""
             THEN [g |-> down.g, result |-> PhraseResult(down.current)]
             ELSE eachRoot(down.g, Tail(rootPhrases), pathTerms, clarifier,
                           Append(outPhrases, down.current))
             : down \in {descend(g, Head(rootPhrases), pathTerms)}} : TRUE

\* Phrase.fromPathComponents(document, path, clarifier), lines 71-123:
\* [g, result]
fromPathComponents(g, path, clarifier) ==
    LET clarifierKey == getClarifierKey(clarifier)
        rootPhrases == peek(g, 1, Head(path), clarifierKey, clarifierKey # "")
    IN  IF Len(path) = 0 THEN [g |-> g, result |-> ArrayResult(<<>>)]
        ELSE IF Len(rootPhrases) = 0 THEN [g |-> g, result |-> ArrayResult(<<>>)]
        ELSE eachRoot(g, rootPhrases, Tail(path), clarifier, <<>>)

----------------------------------------------------------------------------
\* The line parser.  The lines parsed here are written with the graphemes
\* of ParseAlphabet: they hold no escape, no joint, no group, no quantifier
\* and no infix delimiter, and a read of one of these tokens fails.

\* Parser.more(), Parser.peek(token) and the grapheme at the position
more(text, pos) == pos < Len(text)

peekToken(text, pos, token) ==
    /\ pos + Len(token) <= Len(text)
    /\ SubSeq(text, pos + 1, pos + Len(token)) = token

graphemeAt(text, pos) == SubSeq(text, pos + 1, pos + 1)

Whitespace == {" ", "\t"}

\* Parser.readWhitespace(): the position after the whitespace
RECURSIVE readWhitespace(_, _)
readWhitespace(text, pos) ==
    IF more(text, pos) /\ graphemeAt(text, pos) \in Whitespace
    THEN readWhitespace(text, pos + 1)
    ELSE pos

\* String.prototype.trim()
RECURSIVE trim(_)
trim(token) ==
    IF Len(token) = 0 THEN token
    ELSE IF SubSeq(token, 1, 1) \in Whitespace
    THEN trim(SubSeq(token, 2, Len(token)))
    ELSE IF SubSeq(token, Len(token), Len(token)) \in Whitespace
    THEN trim(SubSeq(token, 1, Len(token) - 1))
    ELSE token

\* The loop of maybeReadIdentifier, lines 359-370: the position where the
\* token ends, at one of the tokens of until or at the end of the text.
RECURSIVE identifierEnd(_, _, _)
identifierEnd(text, pos, until) ==
    IF ~more(text, pos) THEN pos
    ELSE IF \E tok \in until : peekToken(text, pos, tok) THEN pos
    ELSE identifierEnd(text, pos + 1, until)

\* readDeclarations(quitTokens), lines 260-289, and readAnnotations
\* (quitTokens), lines 314-343, which in a text without joint read alike:
\* [pos, entries]
RECURSIVE readEntries(_, _, _, _)
readEntries(text, pos, quitTokens, entries) ==
    IF ~more(text, pos) THEN [pos |-> pos, entries |-> entries]
    ELSE LET end == identifierEnd(text, pos, quitTokens \cup {","})
             token == SubSeq(text, pos + 1, end)
             read == IF trim(token) = "" THEN entries
                     ELSE Append(entries, [at |-> pos, end |-> end,
                                           identifier |-> trim(token)])
         IN  IF peekToken(text, end, ",")
             THEN readEntries(text, end + 1, quitTokens, read)
             ELSE [pos |-> end, entries |-> read]

readDeclarations(text, pos, quitTokens) == readEntries(text, pos, quitTokens, <<>>)

readAnnotations(text, pos, quitTokens) == readEntries(text, pos, quitTokens, <<>>)

NoUnit == [kind |-> "null", pos |-> 0, grapheme |-> ""]
ParseError == [kind |-> "ParseError", pos |-> 0, grapheme |-> ""]
Threw == [kind |-> "threw", pos |-> 0, grapheme |-> ""]
Unit(kind, pos, grapheme) == [kind |-> kind, pos |-> pos, grapheme |-> grapheme]

\* maybeReadInfix(), lines 853-926: no text holds "<<", so that the test of
\* line 864 passes and the infix is read as a nominal one, up to ">>".
maybeReadInfix(text, pos) ==
    LET lhs == readDeclarations(text, readWhitespace(text, pos), {">>"})
    IN  IF peekToken(text, pos, "<<") THEN NoUnit
        ELSE IF Len(lhs.entries) = 0 THEN NoUnit
        ELSE Unit("infix", readWhitespace(text, lhs.pos), "")

\* The loop of maybeReadRegexSet, lines 602-660, about to read the grapheme
\* at pos.  With one grapheme queued, queue[len - 2] of line 643 is
\* undefined and reading its character throws TypeError; with two,
\* rangableQueue[len - 3] is undefined and the loop continues.
RECURSIVE setLoop(_, _, _)
setLoop(text, pos, queue) ==
    IF ~more(text, pos) THEN ParseError
    ELSE LET g == graphemeAt(text, pos)
             queued == Append(queue, g)
             len == Len(queued)
         IN  IF g = "]" THEN Unit("set", pos + 1, "")
             ELSE IF len > 2 THEN setLoop(text, pos + 1, queued)
             ELSE IF len < 2 THEN Threw
             ELSE setLoop(text, pos + 1, queued)

\* maybeReadRegexSet(), lines 578-688
maybeReadRegexSet(text, pos) ==
    IF ~peekToken(text, pos, "[") THEN NoUnit
    ELSE setLoop(text, IF peekToken(text, pos + 1, "^") THEN pos + 2 ELSE pos + 1,
                 <<>>)

\* readRegexUnits(false), lines 466-570: [kind, pos, units], kind "units",
\* "ParseError" or "threw"
RECURSIVE readRegexUnits(_, _, _)
readRegexUnits(text, pos, units) ==
    IF ~more(text, pos) THEN [kind |-> "units", pos |-> pos, units |-> units]
    ELSE LET set == maybeReadRegexSet(text, pos)
             infix == maybeReadInfix(text, pos)
         IN  IF set.kind \in {"ParseError", "threw"}
             THEN [kind |-> set.kind, pos |-> pos, units |-> units]
             ELSE IF set.kind = "set"
             THEN readRegexUnits(text, set.pos, Append(units, set))
             ELSE IF infix.kind = "infix"
             THEN readRegexUnits(text, infix.pos, Append(units, infix))
             ELSE readRegexUnits(text, pos + 1,
                    Append(units, Unit("grapheme", pos + 1, graphemeAt(text, pos))))

\* lines 426-438: the trailing whitespace of the pattern is trimmed
RECURSIVE trimUnits(_)
trimUnits(units) ==
    IF Len(units) = 0 THEN units
    ELSE IF Last(units).kind = "grapheme" /\ Last(units).grapheme \in Whitespace
    THEN trimUnits(SubSeq(units, 1, Len(units) - 1))
    ELSE units

\* maybeReadPattern(), lines 413-459: [kind, pos, isTotal], kind "null",
\* "pattern", "ParseError" or "threw"
maybeReadPattern(text, pos) ==
    LET read == readRegexUnits(text, pos + 1, <<>>)
        units == trimUnits(read.units)
    IN  IF ~peekToken(text, pos, "/")
        THEN [kind |-> "null", pos |-> pos, isTotal |-> FALSE]
        ELSE IF read.kind # "units"
        THEN [kind |-> read.kind, pos |-> pos, isTotal |-> FALSE]
        ELSE IF Len(units) = 0
        THEN [kind |-> "ParseError", pos |-> pos, isTotal |-> FALSE]
        ELSE [kind |-> "pattern", pos |-> read.pos,
              isTotal |-> Last(units).kind = "grapheme" /\ Last(units).grapheme = "/"]

Line(threw, indent, declarations, annotations, flags) ==
    [threw |-> threw, indent |-> indent, declarations |-> declarations,
     annotations |-> annotations, flags |-> flags]

\* LineParser.parse(lineText), lines 162-255
parse(lineText) ==
    LET indent == readWhitespace(lineText, 0)
        pattern == maybeReadPattern(lineText, indent)
        declarations == readDeclarations(lineText, indent, {})
    IN  IF ~more(lineText, indent)
        THEN Line(FALSE, indent, <<>>, <<>>, {"isWhitespace"})
        ELSE IF peekToken(lineText, indent, "//")
        THEN Line(FALSE, indent, <<>>, <<>>, {"isComment"})
        ELSE IF peekToken(lineText, indent, ",")
        THEN Line(FALSE, indent, <<>>, <<>>, {"isUnparsable"})
        ELSE IF pattern.kind = "threw"
        THEN Line(TRUE, indent, <<>>, <<>>, {})
        ELSE IF pattern.kind = "ParseError"
        THEN Line(FALSE, indent, <<>>, <<>>, {"isUnparsable"})
        ELSE IF pattern.kind = "pattern"
        THEN Line(FALSE, indent,
                  <<[at |-> indent, end |-> pattern.pos, identifier |-> "pattern"]>>,
                  readAnnotations(lineText, pattern.pos, {}).entries,
                  {"hasPattern",
                   IF pattern.isTotal THEN "hasTotalPattern" ELSE "hasPartialPattern"})
        ELSE Line(FALSE, indent, declarations.entries,
                  readAnnotations(lineText, declarations.pos, {}).entries, {})

\* The catalogue of faults: the severity of a type.
severityOf(type) == IF type = "TabsAndSpaces" THEN "warning" ELSE "error"

Fault(type, source) == [type |-> type, source |-> source]

\* The source of a fault: this statement, or its k-th declaration.
This == <<"statement", 0>>
SpanSource(k) == <<"declaration", k>>

\* Statement.eachParseFault(), lines 1669-1704, of a statement without
\* annotation and without pattern
eachParseFault(sourceText, indent, allDeclarations) ==
    LET chars == {SubSeq(sourceText, i, i) : i \in 1..indent}
        tabsAndSpaces ==
            IF indent > 0 /\ "\t" \in chars /\ " " \in chars
            THEN <<Fault("TabsAndSpaces", This)>> ELSE <<>>
        repeats == {k \in 1..Len(allDeclarations) :
                        \E j \in 1..(k - 1) :
                            allDeclarations[j].identifier = allDeclarations[k].identifier}
        duplicates ==
            IF Len(allDeclarations) > 1
            THEN [n \in 1..Cardinality(repeats) |->
                    Fault("DuplicateDeclaration", SpanSource(Ascending(repeats)[n]))]
            ELSE <<>>
    IN  tabsAndSpaces \o duplicates

\* lines 1639-1663: the cruft objects of the faults collected
cruftOf(faultType, parseFaults) ==
    {f.source : f \in {g \in Range(parseFaults) : severityOf(g.type) = "error"}}

\* new Statement(document, statementText), lines 1474-1664, of a text that
\* begins no pattern: [flags, declarations, faults, cruftObjects]
newStatement(statementText) ==
    LET indent == readWhitespace(statementText, 0)
        isComment ==
            /\ peekToken(statementText, indent, "//")
            /\ \/ ~more(statementText, indent + 2)
               \/ graphemeAt(statementText, indent + 2) \in Whitespace
        faultType ==
            IF ~more(statementText, indent) \/ isComment THEN ""
            ELSE IF peekToken(statementText, indent, ",")
            THEN "StatementBeginsWithComma"
            ELSE ""
        shouldFinalize ==
            more(statementText, indent) /\ ~isComment /\ faultType = ""
        declarations ==
            IF shouldFinalize
            THEN readDeclarations(statementText, indent, {}).entries
            ELSE <<>>
        flags == IF ~more(statementText, indent) THEN {"isWhitespace"}
                 ELSE IF isComment THEN {"isComment"}
                 ELSE IF faultType # "" THEN {"isCruft"}
                 ELSE {}
        parseFaults == eachParseFault(statementText, indent, declarations)
    IN  [flags |-> flags,
         declarations |-> declarations,
         faults |-> (IF faultType # "" THEN <<Fault(faultType, This)>> ELSE <<>>)
                    \o parseFaults,
         cruftObjects |-> cruftOf(faultType, parseFaults)]

----------------------------------------------------------------------------
\* The writer of Backer and the file its callbacks write.

\* changeStart of a writer that recorded no change
Infinity == 1000

\* string[i], "undefined" past the end
charAt(text, i) ==
    IF i >= 0 /\ i < Len(text) THEN SubSeq(text, i + 1, i + 1) ELSE "undefined"

WriteCallback(data, position) == [op |-> "write", data |-> data, at |-> position]
TruncateCallback(length) == [op |-> "truncate", data |-> "", at |-> length]

\* MockFile.write and MockFile.truncate, tests/writer.ts lines 11-21: a
\* truncate beyond the end of the file throws and leaves the file as it is.
fileAfter(file, callback) ==
    IF callback.op = "write"
    THEN Slice(file, 0, callback.at) \o callback.data
         \o SliceFrom(file, callback.at + Len(callback.data))
    ELSE IF callback.at > Len(file) THEN file
    ELSE Slice(file, 0, callback.at)

\* MockFile.truncate, line 19
fileThrows(file, callback) == callback.op = "truncate" /\ callback.at > Len(file)

\* The callbacks reach the file and the record of the step, up to the one
\* that throws.
RECURSIVE invoke(_, _)
invoke(w, callbacks) ==
    IF Len(callbacks) = 0 \/ w.threw THEN w
    ELSE invoke([w EXCEPT !.file = fileAfter(@, Head(callbacks)),
                          !.issued = Append(@, Head(callbacks)),
                          !.threw = fileThrows(w.file, Head(callbacks))],
                Tail(callbacks))

\* new Writer(callbacks, smallDataSize, verySmallDataSize), lines 17-30,
\* with a new file and a placeholder of the given text.  step is the last
\* call made, issued the callbacks it invoked, maxWriteLength the local of
\* the last transaction that returned (line 72), apart whether every insert
\* and update of the client landed outside the identifiers and no
\* transaction was called.
NewWriterOf(smallDataSize, verySmallDataSize, text) ==
    [constructed |-> TRUE, data |-> "", cursor |-> 0, identifiers |-> <<>>,
     inTransaction |-> FALSE, changeStart |-> Infinity, changeEnd |-> 0,
     maxChangedBytes |-> 0, smallDataSize |-> smallDataSize,
     verySmallDataSize |-> verySmallDataSize,
     depth |-> 0, originalData |-> "", originalCursor |-> 0,
     originalIdentifiers |-> <<>>,
     maxWriteLength |-> 0,
     file |-> "", issued |-> <<>>, threw |-> FALSE, placeholder |-> text,
     step |-> "new", apart |-> TRUE, calls |-> 0]

NoWriter == [NewWriterOf(0, 0, "") EXCEPT !.constructed = FALSE]

\* write, with the test of line 34 left out
writeThrough(w, data, position, changed) ==
    invoke(w, <<WriteCallback(data, position)>>)

\* Writer.write(data, position, changed), lines 32-43: inside a transaction
\* the change is recorded and nothing is written.
writerWrite(w, data, position, changed) ==
    IF w.inTransaction
    THEN [w EXCEPT
            !.changeStart = IF position < @ THEN position ELSE @,
            !.changeEnd = IF position + changed > @ THEN position + changed ELSE @,
            !.maxChangedBytes = IF changed > @ THEN changed ELSE @]
    ELSE invoke(w, <<WriteCallback(data, position)>>)

\* Writer.truncate(length), lines 45-49
writerTruncate(w, length) ==
    IF w.inTransaction THEN w ELSE invoke(w, <<TruncateCallback(length)>>)

\* Writer.updateIdentifiers(position, insertedChars), lines 194-208
updateIdentifiers(w, position, insertedChars) ==
    [w EXCEPT !.identifiers =
        [k \in 1..Len(@) |->
            IF @[k].start > position
            THEN [@[k] EXCEPT !.start = @ + insertedChars, !.end = @ + insertedChars]
            ELSE @[k]]]

\* Writer.insert(data, position), lines 210-217
insert(w, data, position) ==
    LET moved == updateIdentifiers(w, position, Len(data))
        writeData == data \o SliceFrom(w.data, position)
        written == writerWrite(moved, writeData, position, Len(data))
    IN  [written EXCEPT
            !.data = Slice(w.data, 0, position) \o writeData,
            !.cursor = @ + Len(data)]

\* Writer.update(data, length, position), lines 219-241
update(w, data, length, position) ==
    LET changedBytes == Len(data) - length
        moved == updateIdentifiers(w, position, changedBytes)
        updatedData == data \o SliceFrom(w.data, position + length)
        stored == [moved EXCEPT !.data = Slice(w.data, 0, position) \o updatedData]
        written == writerWrite(stored, updatedData, position, length)
        advanced == [written EXCEPT !.cursor = @ + changedBytes]
    IN  IF Len(data) = length THEN writerWrite(stored, data, position, length)
        ELSE IF changedBytes < 0 THEN writerTruncate(advanced, Len(advanced.data))
        ELSE advanced

\* The inner loop of line 139: the first index from i on where the two
\* texts agree.
RECURSIVE runEnd(_, _, _)
runEnd(originalData, data, i) ==
    IF charAt(originalData, i) = charAt(data, i) THEN i
    ELSE runEnd(originalData, data, i + 1)

\* The loop of lines 134-164, about to test index i, with the writes it has
\* performed: lastWriteStart and lastWriteEnd are -1 while undefined.
RECURSIVE diffLoop(_, _, _, _, _, _, _, _)
diffLoop(originalData, data, i, end, verySmallDataSize, lastWriteStart, lastWriteEnd, writes) ==
    IF i >= end
    THEN [lastWriteStart |-> lastWriteStart, lastWriteEnd |-> lastWriteEnd,
          writes |-> writes]
    ELSE IF charAt(originalData, i) = charAt(data, i)
    THEN diffLoop(originalData, data, i + 1, end, verySmallDataSize,
                  lastWriteStart, lastWriteEnd, writes)
    ELSE LET start == i
             j == runEnd(originalData, data, i + 1)
         IN  IF lastWriteStart = -1
             THEN diffLoop(originalData, data, j + 1, end, verySmallDataSize,
                           start, j, writes)
             ELSE IF j - lastWriteStart <= verySmallDataSize
             THEN diffLoop(originalData, data, j + 1, end, verySmallDataSize,
                           lastWriteStart, j, writes)
             ELSE diffLoop(originalData, data, j + 1, end, verySmallDataSize,
                           start, j,
                           Append(writes, WriteCallback(
                               Slice(data, lastWriteStart, lastWriteEnd),
                               lastWriteStart)))

\* Writer.transaction, lines 89-191: the callbacks issued once the callback
\* of the outermost transaction has returned.
callbacksOf(w, originalData, changeStart, changeEnd, maxWriteLength) ==
    LET data == w.data
        start == Min(Min(changeStart, Len(originalData)), Len(data))
        end == Min(Min(changeEnd, Len(originalData)), Len(data))
        diff == diffLoop(originalData, data, start, end, w.verySmallDataSize,
                         -1, -1, <<>>)
        pending == IF diff.lastWriteStart # -1
                   THEN <<WriteCallback(
                            Slice(data, diff.lastWriteStart, diff.lastWriteEnd),
                            diff.lastWriteStart)>>
                   ELSE <<>>
        grown == IF /\ Len(originalData) < Len(data)
                    /\ diff.lastWriteEnd > 0
                    /\ diff.lastWriteEnd < Len(data)
                 THEN <<WriteCallback(SliceFrom(data, Len(originalData)),
                                      Len(originalData))>>
                 ELSE <<>>
        shrunk == IF Len(originalData) > Len(data)
                  THEN <<TruncateCallback(Len(data))>> ELSE <<>>
    IN  IF changeStart = Infinity \/ maxWriteLength = 0 THEN <<>>
        ELSE IF Len(data) <= w.smallDataSize
        THEN IF data = originalData THEN <<>>
             ELSE <<WriteCallback(data, 0)>>
                  \o (IF Len(data) < Len(originalData)
                      THEN <<TruncateCallback(Len(data))>> ELSE <<>>)
        ELSE IF /\ Len(originalData) = Len(data)
                /\ changeEnd - changeStart <= w.smallDataSize
        THEN <<WriteCallback(Slice(data, changeStart, changeEnd), changeStart)>>
        ELSE IF changeStart >= Len(originalData)
        THEN <<WriteCallback(SliceFrom(data, changeStart), changeStart)>>
        ELSE diff.writes \o pending \o grown \o shrunk

\* Writer.transaction, lines 59-68: the call of an outermost transaction,
\* up to the call of its callback
beginTransaction(w) ==
    [w EXCEPT !.originalData = w.data, !.originalCursor = w.cursor,
              !.originalIdentifiers = w.identifiers, !.inTransaction = TRUE]

\* lines 70-72 and 81-191: the callback has returned
endTransaction(w) ==
    LET reset == [w EXCEPT !.inTransaction = FALSE, !.changeStart = Infinity,
                           !.changeEnd = 0, !.maxChangedBytes = 0,
                           !.maxWriteLength = w.maxChangedBytes]
    IN  invoke(reset, callbacksOf(w, w.originalData, w.changeStart, w.changeEnd,
                                  w.maxChangedBytes))

\* lines 74-87: the callback has thrown
abortTransaction(w) ==
    [w EXCEPT !.data = w.originalData, !.cursor = w.originalCursor,
              !.identifiers = w.originalIdentifiers,
              !.inTransaction = FALSE, !.changeStart = Infinity,
              !.changeEnd = 0, !.maxChangedBytes = 0]

\* identifiers.sort((a, b) => a.start - b.start), line 254: a stable sort
RECURSIVE InsertByStart(_, _)
InsertByStart(sorted, item) ==
    IF Len(sorted) = 0 THEN <<item>>
    ELSE IF item.start < Head(sorted).start THEN <<item>> \o sorted
    ELSE <<Head(sorted)>> \o InsertByStart(Tail(sorted), item)

RECURSIVE sortByStart(_)
sortByStart(items) ==
    IF Len(items) = 0 THEN <<>>
    ELSE InsertByStart(sortByStart(SubSeq(items, 1, Len(items) - 1)), Last(items))

\* Writer.insertIdentifier(identifier, position), lines 243-257
insertIdentifier(w, position) ==
    LET text == w.placeholder
        inserted == insert(w, text, position)
        pushed == Append(inserted.identifiers,
                         [start |-> position, end |-> position + Len(text),
                          length |-> Len(text)])
    IN  [inserted EXCEPT !.identifiers =
            IF position # inserted.cursor THEN sortByStart(pushed) ELSE pushed]

\* The loop of lines 272-276 over the identifiers from the k-th on, left
\* when an update throws
RECURSIVE updateEach(_, _, _)
updateEach(w, k, name) ==
    IF k > Len(w.identifiers) THEN w
    ELSE LET item == w.identifiers[k]
             updated == update(w, name, item.length, item.start)
         IN  IF updated.threw THEN updated
             ELSE updateEach([updated EXCEPT !.identifiers[k].length = Len(name)],
                             k + 1, name)

\* Writer.applyIdentifierUpdate(identifier), lines 259-286, the text of the
\* placeholder set: every identifier of the writer is of the placeholder.
applyIdentifierUpdate(w) ==
    LET name == w.placeholder
    IN  IF Len(w.identifiers) = 0 THEN w
        ELSE IF Len(name) = w.identifiers[1].length \/ Len(w.identifiers) = 1
        THEN updateEach(w, 1, name)
        ELSE IF w.inTransaction THEN updateEach(w, 1, name)
        ELSE endTransaction(updateEach(beginTransaction(w), 1, name))

\* Placeholder.edit(newText), Placeholder.ts lines 18-27
placeholderEdit(w, newText) ==
    IF w.placeholder = newText THEN w
    ELSE applyIdentifierUpdate([w EXCEPT !.placeholder = newText])

----------------------------------------------------------------------------
\* Reference resolution

Uris == {"http://u"}

\* Document.isUnlinkable(refDoc): the documents referred to hold no
\* reference themselves, and none of them is this document.
isUnlinkable(refDoc) == FALSE

\* Sorts [line, statement] tuples by line, descending (numB - numA), stable.
RECURSIVE InsertByLineDesc(_, _)
InsertByLineDesc(sorted, tuple) ==
    IF Len(sorted) = 0 THEN <<tuple>>
    ELSE IF Head(sorted)[1] >= tuple[1]
         THEN <<Head(sorted)>> \o InsertByLineDesc(Tail(sorted), tuple)
         ELSE <<tuple>> \o sorted

RECURSIVE SortByLineDesc(_)
SortByLineDesc(tuples) ==
    IF Len(tuples) = 0 THEN <<>>
    ELSE InsertByLineDesc(SortByLineDesc(SubSeq(tuples, 1, Len(tuples) - 1)),
                          Last(tuples))

\* existing.splice(existing.indexOf(del), 1) for each deleted statement
RECURSIVE RemoveEach(_, _)
RemoveEach(existing, deleted) ==
    IF Len(deleted) = 0 THEN existing
    ELSE LET idx == IndexOf(existing, Head(deleted))
         IN  RemoveEach(
                IF idx > -1
                THEN SubSeq(existing, 1, idx) \o SubSeq(existing, idx + 2, Len(existing))
                ELSE existing,
                Tail(deleted))

\* lines 142-167
proposedUriSmts(stmts, uriSmts, deleted, added) ==
    LET existing == RemoveEach(uriSmts, deleted)
        toTuples(smts) == [k \in 1..Len(smts) |-> <<IndexOf(stmts, smts[k]), smts[k]>>]
        sorted == SortByLineDesc(toTuples(existing) \o toTuples(added))
    IN  [k \in 1..Len(sorted) |-> sorted[k][2]]

\* Document.updateReferences(deleted, added), lines 133-252, when the
\* loader answers loads[u] (TRUE: a document, FALSE: an error) for URI u.
\* The result is [uriStatements, dependencies, faults, loaded].
updateReferences(stmts, uriSmts, deps, known, deleted, added, loads) ==
    LET existing == RemoveEach(uriSmts, deleted)
        proposed == proposedUriSmts(stmts, uriSmts, deleted, added)
        n == Len(proposed)
        uriTexts == [k \in 1..n |-> uriOf(proposed[k])]
        duplicate(k) == \E j \in 1..(k - 1) : uriTexts[j] = uriTexts[k]
        isExisting(k) == \E j \in 1..Len(existing) : existing[j] = proposed[k]
        isAdded(k) == \E j \in 1..Len(added) : added[j] = proposed[k]
        \* the URIs loaded before the statement at k is reached
        loadedBefore(k) ==
            known \cup {uriTexts[j] : j \in {i \in 1..(k - 1) :
                ~duplicate(i) /\ ~isExisting(i) /\ isAdded(i) /\ loads[uriTexts[i]]}}
        resolves(k) == uriTexts[k] \in loadedBefore(k) \/ loads[uriTexts[k]]
        \* dependencies[k], "" for null
        dep(k) ==
            IF duplicate(k) THEN ""
            ELSE IF isExisting(k)
                 THEN IF \E j \in 1..Len(deps) : deps[j] = uriTexts[k]
                      THEN uriTexts[k] ELSE ""
            ELSE IF ~isAdded(k) THEN ""
            ELSE IF ~resolves(k) THEN ""
            ELSE IF isUnlinkable(uriTexts[k]) THEN ""
            ELSE uriTexts[k]
        reported ==
            {<<"DuplicateReference", proposed[k].stamp>> : k \in {i \in 1..n : duplicate(i)}}
            \cup {<<"UnresolvedResource", proposed[k].stamp>> :
                    k \in {i \in 1..n : ~duplicate(i) /\ ~isExisting(i)
                                        /\ isAdded(i) /\ ~resolves(i)}}
    IN  [uriStatements |-> proposed,
         dependencies |-> SelectSeq([k \in 1..n |-> dep(k)], LAMBDA d : d # ""),
         faults |-> reported,
         loaded |-> loadedBefore(n + 1)]

----------------------------------------------------------------------------
\* The program: documents that refer to one another.  A document is named
\* by its URI; its lines are URI statements.

DocUris == {"http://x", "http://y"}

NoDoc ==
    [exists |-> FALSE, statements |-> <<>>, uriStatements |-> <<>>,
     dependencies |-> <<>>, dependents |-> <<>>, inEdit |-> FALSE]

\* Program.getDocumentByUri(uri): the document saved under the URI, if any.
getDocumentByUri(ds, uri) == ds[uri].exists

NoAnswer == [op |-> "none"]

\* hasCyclesRecursive(current) of lines 267-278, a depth-first search along
\* _dependencies for this document; seen holds the documents on the path.
RECURSIVE hasCyclesRecursive(_, _, _, _)
hasCyclesRecursive(ds, this, current, seen) ==
    \/ current = this
    \/ \E k \in 1..Len(ds[current].dependencies) :
            /\ ds[current].dependencies[k] \notin seen
            /\ hasCyclesRecursive(ds, this, ds[current].dependencies[k],
                                  seen \cup {current})

\* Document.isUnlinkable(proposedReference), lines 265-281
isUnlinkableIn(ds, this, proposedReference) ==
    hasCyclesRecursive(ds, this, proposedReference, {})

\* A cause about a document of the program, as program.cause publishes it.
DocumentCause(type, uri) ==
    [type |-> type, smts |-> <<>>, indexes |-> <<>>, lines |-> <<>>, document |-> uri]

\* A creation or a resolution under way.  phase: "read" (Document.new awaits
\* the reader), "loop" (updateReferences awaits the next turn of its loop),
\* "await" (it awaits addDocumentFromUri), "resume" (addDocumentFromUri has
\* answered result, "doc" or "error"), "done".  deps is the local
\* dependencies array, "" for null; i is the index of the next turn;
\* completed is the number of causes published when the edit that called
\* the resolution had published its CauseEditComplete, 0 when no edit did.
NoTask ==
    [phase |-> "done", doc |-> "", parent |-> 0, deleted |-> <<>>, existing |-> <<>>,
     added |-> <<>>, proposed |-> <<>>, faulty |-> {}, deps |-> <<>>, i |-> 0,
     result |-> "", completed |-> 0]

ReadTask(uri, parent) ==
    [NoTask EXCEPT !.phase = "read", !.doc = uri, !.parent = parent]

\* The tasks without the finished ones at the end.
RECURSIVE Trim(_)
Trim(ts) ==
    IF Len(ts) > 0 /\ Last(ts).phase = "done"
    THEN Trim(SubSeq(ts, 1, Len(ts) - 1))
    ELSE ts

\* The task t ends; the task that awaits it, if any, gets its result.
Finish(ts, t, result) ==
    LET parent == ts[t].parent
        ended == [ts EXCEPT ![t] = NoTask]
    IN  Trim(IF parent = 0 THEN ended
             ELSE [ended EXCEPT ![parent].phase = "resume", ![parent].result = result])

\* updateReferences(deleted, added) up to its first await, lines 133-186:
\* the proposed URI statements and the DuplicateReference faults.
BeginReferences(ds, this, deleted, added, parent) ==
    LET existing == RemoveEach(ds[this].uriStatements, deleted)
        proposed == proposedUriSmts(ds[this].statements, ds[this].uriStatements,
                                    deleted, added)
        n == Len(proposed)
        uriTexts == [k \in 1..n |-> uriOf(proposed[k])]
        duplicates == {proposed[k].stamp :
                        k \in {i \in 1..n : IndexOf(uriTexts, uriTexts[i]) < i - 1}}
    IN  [task |-> [phase |-> "loop", doc |-> this, parent |-> parent,
                   deleted |-> deleted, existing |-> existing, added |-> added,
                   proposed |-> proposed,
                   faulty |-> duplicates, deps |-> [k \in 1..n |-> ""], i |-> 0,
                   result |-> "", completed |-> 0],
         faults |-> {<<"DuplicateReference", stamp>> : stamp \in duplicates}]

\* Lines 218-228 left out: whatever was answered becomes the dependency.
LinkAnyAnswer(ds, task, isDocument) ==
    [task |-> [task EXCEPT !.phase = "loop", !.i = @ + 1, !.result = "",
                           !.deps[task.i + 1] = uriOf(task.proposed[task.i + 1])],
     faults |-> {}]

\* lines 218-230: what the turn does with the answer for proposed[i].
\* The result is [task, faults].
Link(ds, task, isDocument) ==
    LET smt == task.proposed[task.i + 1]
        next == [task EXCEPT !.phase = "loop", !.i = @ + 1, !.result = ""]
    IN  IF ~isDocument
        THEN [task |-> [next EXCEPT !.faulty = @ \cup {smt.stamp}],
              faults |-> {<<"UnresolvedResource", smt.stamp>>}]
        ELSE IF isUnlinkableIn(ds, task.doc, uriOf(smt))
        THEN [task |-> [next EXCEPT !.faulty = @ \cup {smt.stamp}],
              faults |-> {<<"CircularResourceReference", smt.stamp>>}]
        ELSE [task |-> [next EXCEPT !.deps[task.i + 1] = uriOf(smt)],
              faults |-> {}]

\* Lines 237-238 left out: no dependent is recorded.
pushDependentsSkipped(ds, this, addedDeps) == ds

\* addedDep._dependents.push(this), lines 237-238
RECURSIVE pushDependents(_, _, _)
pushDependents(ds, this, addedDeps) ==
    IF Len(addedDeps) = 0 THEN ds
    ELSE pushDependents([ds EXCEPT ![Head(addedDeps)].dependents = Append(@, this)],
                        this, Tail(addedDeps))

\* removedDep._dependents.splice(removedDep._dependents.indexOf(this), 1),
\* lines 240-241; splice(-1, 1) removes the last element.
RECURSIVE spliceDependents(_, _, _)
spliceDependents(ds, this, removedDeps) ==
    IF Len(removedDeps) = 0 THEN ds
    ELSE LET dpts == ds[Head(removedDeps)].dependents
             idx == IndexOf(dpts, this)
             spliced == IF idx > -1
                        THEN SubSeq(dpts, 1, idx) \o SubSeq(dpts, idx + 2, Len(dpts))
                        ELSE SubSeq(dpts, 1, Len(dpts) - 1)
         IN  spliceDependents([ds EXCEPT ![Head(removedDeps)].dependents = spliced],
                              this, Tail(removedDeps))

\* lines 233-251: the end of updateReferences
CommitReferences(ds, task) ==
    LET this == task.doc
        current == ds[this].dependencies
        newDeps == SelectSeq(task.deps, LAMBDA d : d # "")
        addedDeps == SelectSeq(newDeps, LAMBDA d : d \notin Range(current))
        removedDeps == SelectSeq(current, LAMBDA d : d \notin Range(newDeps))
        linked == spliceDependents(pushDependents(ds, this, addedDeps), this, removedDeps)
    IN  [linked EXCEPT ![this].dependencies = newDeps,
                       ![this].uriStatements = task.proposed]

----------------------------------------------------------------------------
\* The document after Document.new, lines 21-71

\* The sequences over S of at most n elements.
RECURSIVE SeqsUpTo(_, _)
SeqsUpTo(S, n) ==
    IF n = 0 THEN {<<>>}
    ELSE LET shorter == SeqsUpTo(S, n - 1)
         IN  shorter \cup {Append(q, x) : q \in {r \in shorter : Len(r) = n - 1}, x \in S}

Self == "self"

\* _dependents of the documents referred to, once this document's
\* dependencies went from oldDeps to newDeps (lines 233-241).
dependentsAfter(dpts, oldDeps, newDeps) ==
    [u \in Uris |->
        IF u \in Range(newDeps) /\ u \notin Range(oldDeps) THEN Append(dpts[u], Self)
        ELSE IF u \in Range(oldDeps) /\ u \notin Range(newDeps)
        THEN LET idx == IndexOf(dpts[u], Self)
             IN  IF idx > -1
                 THEN SubSeq(dpts[u], 1, idx) \o SubSeq(dpts[u], idx + 2, Len(dpts[u]))
                 \* splice(-1, 1) removes the last element
                 ELSE SubSeq(dpts[u], 1, Len(dpts[u]) - 1)
        ELSE dpts[u]]

NoTx(stmts, ver) ==
    [raw |-> <<>>, calls |-> <<>>, pre |-> stmts, version |-> ver,
     base |-> 0, path |-> "none", done |-> FALSE]

InitOver(sources, calls) ==
    \E texts \in sources, loads \in [Uris -> BOOLEAN] :
        LET smts == [k \in 1..Len(texts) |-> Statement(texts[k], k + 1)]
            refs == IF Len(UriOnly(smts)) > 0
                    THEN updateReferences(smts, <<>>, <<>>, {}, <<>>, UriOnly(smts), loads)
                    ELSE [uriStatements |-> <<>>, dependencies |-> <<>>,
                          faults |-> {}, loaded |-> {}]
        IN  /\ statements = smts
            /\ disposed = {}
            /\ clock = Len(texts) + 1
            /\ version = 1
            /\ inEdit = FALSE
            /\ uriStatements = refs.uriStatements
            /\ dependencies = refs.dependencies
            /\ dependents = dependentsAfter([u \in Uris |-> <<>>], <<>>, refs.dependencies)
            /\ loaded = refs.loaded
            /\ faults = refs.faults
            /\ events = <<>>
            /\ pc = "idle"
            /\ pendingDel = <<>>
            /\ pendingAdd = <<>>
            /\ last = "new"
            /\ budget = calls
            /\ tx = NoTx(smts, 1)
            /\ docs = [u \in DocUris |-> NoDoc]
            /\ tasks = <<>>
            /\ loaderCalls = {}
            /\ failedLoads = {}
            /\ answer = NoAnswer
            /\ graph = NoGraph
            /\ writer = NoWriter

InitWith(calls) == InitOver(SeqsUpTo(Lines, MaxLen), calls)

Init == InitWith(MaxCalls)

InitFew == InitWith(FewCalls)

\* The texts of the lines of the documents edited by range, and the
\* documents: they have a line and hold no URI.
AtomicLines == {"", "ab", " a"}

AtomicSources == {texts \in SeqsUpTo(AtomicLines, MaxLen) : Len(texts) > 0}

InitAtomic == InitOver(AtomicSources, FewCalls)

----------------------------------------------------------------------------
\* edit()

docVars == <<statements, disposed, version, uriStatements, dependencies,
             dependents, loaded, faults, events, pendingDel, pendingAdd>>

progVars == <<docs, tasks, loaderCalls, failedLoads>>

\* What neither an edit nor a resolution touches.
sideVars == <<answer, graph, writer>>

\* The guard of line 784 left out.
EditNeverBlocked == FALSE

\* line 784
EditBlocked == inEdit

\* lines 784-785: edit() while a transaction of the document is under way
\* throws DoubleTransaction
EditDoubleTransaction ==
    /\ EditBlocked
    /\ last' = "DoubleTransaction"
    /\ UNCHANGED <<docVars, progVars, sideVars, clock, inEdit, pc, budget, tx>>

Begins(raws) ==
    /\ pc = "idle"
    /\ ~EditBlocked
    /\ budget' = budget - Len(raws)
    /\ UNCHANGED <<progVars, sideVars>>

TxOf(raws, calls, path) ==
    [raw |-> raws, calls |-> calls, pre |-> statements, version |-> version,
     base |-> Len(events), path |-> path, done |-> FALSE]

\* lines 784-822: the callback records no call
EditNoCalls ==
    \E raws \in RawLists(Len(statements), budget) :
        LET rec == editFn(statements, clock, raws)
        IN  /\ Begins(raws)
            /\ ~rec.threw
            /\ Len(rec.calls) = 0
            /\ inEdit' = FALSE
            /\ clock' = rec.clock
            /\ last' = "NoCalls"
            /\ tx' = [TxOf(raws, rec.calls, "none") EXCEPT !.done = TRUE]
            /\ UNCHANGED <<docVars, pc>>

\* lines 784-816: the callback throws, of itself after its calls or in
\* update() reading a document without lines
EditFnThrows ==
    \E raws \in RawLists(Len(statements), budget) :
        LET rec == editFn(statements, clock, raws)
        IN  /\ Begins(raws)
            /\ inEdit' = TRUE
            /\ clock' = rec.clock
            /\ last' = "FnThrows"
            /\ tx' = TxOf(<<>>, <<>>, "threw")
            /\ UNCHANGED <<docVars, pc>>

\* lines 784-1168: the callback records calls and the changeset algorithm
\* runs, to its end or to an exception
EditRuns ==
    \E raws \in RawLists(Len(statements), budget) :
        LET rec == editFn(statements, clock, raws)
            r == Iife(statements, rec.calls)
        IN  /\ Begins(raws)
            /\ ~rec.threw
            /\ Len(rec.calls) > 0
            /\ inEdit' = TRUE
            /\ clock' = rec.clock
            /\ IF r.threw
               THEN /\ last' = "IifeThrows"
                    /\ tx' = TxOf(<<>>, <<>>, "threw")
                    /\ UNCHANGED <<docVars, pc>>
               ELSE /\ statements' = r.m.s
                    /\ disposed' = disposed \cup r.m.disp
                    /\ events' = events \o r.events
                    /\ pendingDel' = r.m.del
                    /\ pendingAdd' = r.m.add
                    /\ pc' = "iife"
                    /\ last' = "Runs"
                    /\ tx' = TxOf(raws, rec.calls, r.path)
                    /\ UNCHANGED <<version, uriStatements, dependencies,
                                   dependents, loaded, faults>>

\* EditComplete, with the version stamped before the cause is published.
EditCompleteStamped ==
    /\ pc = "iife"
    /\ pc' = "complete"
    /\ last' = "Complete"
    /\ events' = Append(events, CauseEditComplete)
    /\ version' = VersionStampNext(clock)
    /\ clock' = VersionStampNext(clock)
    /\ UNCHANGED <<statements, disposed, inEdit, uriStatements, dependencies,
                   dependents, loaded, faults, pendingDel, pendingAdd, budget, tx,
                   progVars, sideVars>>

\* lines 1170-1182: the debug check and CauseEditComplete
EditComplete ==
    /\ pc = "iife"
    /\ IF \E i \in 1..Len(statements) : statements[i].stamp \in disposed
       THEN /\ pc' = "idle"
            /\ last' = "CheckThrows"
            /\ UNCHANGED events
       ELSE /\ pc' = "complete"
            /\ last' = "Complete"
            /\ events' = Append(events, CauseEditComplete)
    /\ UNCHANGED <<statements, disposed, clock, version, inEdit, uriStatements,
                   dependencies, dependents, loaded, faults, pendingDel,
                   pendingAdd, budget, tx, progVars, sideVars>>

\* lines 1184-1187
EditStamp ==
    /\ pc = "complete"
    /\ version' = VersionStampNext(clock)
    /\ clock' = VersionStampNext(clock)
    /\ inEdit' = FALSE
    /\ tx' = [tx EXCEPT !.done = TRUE]
    /\ last' = "Stamp"
    /\ pc' = IF Len(pendingAdd) + Len(pendingDel) > 0 THEN "refs" ELSE "idle"
    /\ UNCHANGED <<statements, disposed, uriStatements, dependencies, dependents,
                   loaded, faults, events, pendingDel, pendingAdd, budget,
                   progVars, sideVars>>

\* line 1188
EditUpdateReferences ==
    \E loads \in [Uris -> BOOLEAN] :
        LET refs == updateReferences(statements, uriStatements, dependencies,
                                     loaded, pendingDel, pendingAdd, loads)
        IN  /\ pc = "refs"
            /\ uriStatements' = refs.uriStatements
            /\ dependencies' = refs.dependencies
            /\ dependents' = dependentsAfter(dependents, dependencies, refs.dependencies)
            /\ loaded' = refs.loaded
            /\ faults' = faults \cup refs.faults
            /\ pendingDel' = <<>>
            /\ pendingAdd' = <<>>
            /\ pc' = "idle"
            /\ last' = "UpdateReferences"
            /\ UNCHANGED <<statements, disposed, clock, version, inEdit, events,
                           budget, tx, progVars, sideVars>>

\* The texts a range edit puts in.
AtomicTexts == {"", "x", "\n", "x\ny"}

\* The range edits in bounds of the document: from a position of a line to
\* a position of the same or a later line.
RangeEdits(stmts) ==
    LET lines == 0..(Len(stmts) - 1)
        cols(line) == 0..Len(stmts[line + 1].text)
        ranges == UNION {UNION {{<<sl, sc, el, ec>> : sc \in cols(sl), ec \in cols(el)} :
                                    el \in {l \in lines : l >= sl}} : sl \in lines}
    IN  {RangeEdit(r[1], r[2], r[3], r[4], text) :
            r \in {q \in ranges : q[1] = q[3] => q[2] <= q[4]},
            text \in AtomicTexts}

\* lines 1200-1313 and 782-1168: editAtomic(edits) is edit() with the
\* callback above
EditAtomic ==
    \E editInfo \in RangeEdits(statements) \cup {NoRangeEdit} :
        LET cb == AtomicCallback(statements, [raws |-> <<>>, threw |-> FALSE],
                                 <<editInfo>>)
            rec == editFn(statements, clock, cb.raws)
            r == Iife(statements, rec.calls)
            txOf(path) == [raw |-> cb.raws, calls |-> rec.calls, pre |-> statements,
                           version |-> version, base |-> Len(events), path |-> path,
                           done |-> FALSE, edit |-> editInfo]
        IN  /\ pc = "idle"
            /\ ~EditBlocked
            /\ budget > 0
            /\ budget' = budget - 1
            /\ clock' = rec.clock
            /\ UNCHANGED <<progVars, sideVars>>
            /\ IF cb.threw \/ rec.threw \/ (Len(rec.calls) > 0 /\ r.threw)
               THEN /\ inEdit' = TRUE
                    /\ last' = "AtomicThrows"
                    /\ tx' = txOf("threw")
                    /\ UNCHANGED <<docVars, pc>>
               ELSE IF Len(rec.calls) = 0
               THEN /\ inEdit' = FALSE
                    /\ last' = "AtomicNoCalls"
                    /\ tx' = [txOf("none") EXCEPT !.done = TRUE]
                    /\ UNCHANGED <<docVars, pc>>
               ELSE /\ inEdit' = TRUE
                    /\ statements' = r.m.s
                    /\ disposed' = disposed \cup r.m.disp
                    /\ events' = events \o r.events
                    /\ pendingDel' = r.m.del
                    /\ pendingAdd' = r.m.add
                    /\ pc' = "iife"
                    /\ last' = "Atomic"
                    /\ tx' = txOf(r.path)
                    /\ UNCHANGED <<version, uriStatements, dependencies,
                                   dependents, loaded, faults>>

Next ==
    \/ EditDoubleTransaction
    \/ EditNoCalls
    \/ EditFnThrows
    \/ EditRuns
    \/ EditComplete
    \/ EditStamp
    \/ EditUpdateReferences

Spec == Init /\ [][Next]_vars

SpecFew == InitFew /\ [][Next]_vars

\* The same client on documents of three levels of indentation.
DeepLines == {"A", " B", "  C"}

DeepSources == {texts \in SeqsUpTo(DeepLines, MaxDeep) : Len(texts) = MaxDeep}

InitDeep == InitOver(DeepSources, MaxCalls)

SpecDeep == InitDeep /\ [][Next]_vars

\* A client that edits by range: the documents of InitAtomic hold no URI and
\* the range edits put none in, so no reference resolution follows.
NextAtomic ==
    \/ EditDoubleTransaction
    \/ EditAtomic
    \/ EditComplete
    \/ EditStamp

SpecAtomic == InitAtomic /\ [][NextAtomic]_vars

----------------------------------------------------------------------------
\* The program at work.  The host loads a document only while nothing else
\* is under way, and its edits refer to a document not yet in the program
\* only then: so no URI is ever being loaded twice at a time.  A resolution
\* called with nothing to add or delete is awaited before the next edit.

InitProgram == InitOver({<<>>}, FewCalls)

\* The texts the reader answers with: lines of URIs.
Sources == SeqsUpTo(DocUris, MaxLen)

\* The host calls program.addDocumentFromUri(uri): Document.new up to the
\* await of line 29.
AddDocument ==
    \E uri \in DocUris :
    /\ ~getDocumentByUri(docs, uri)
    /\ tasks = <<>>
    /\ tasks' = <<ReadTask(uri, 0)>>
    /\ UNCHANGED <<docVars, clock, inEdit, pc, last, budget, tx, docs, loaderCalls,
                   failedLoads, sideVars>>

\* lines 29-33: the reader answers with an error, and so does Document.new
ReadFails ==
    \E t \in 1..Len(tasks) :
    LET parent == tasks[t].parent
    IN  /\ tasks[t].phase = "read"
        /\ tasks' = Finish(tasks, t, "error")
        /\ failedLoads' =
                IF parent = 0 THEN failedLoads
                ELSE failedLoads \cup {tasks[parent].proposed[tasks[parent].i + 1].stamp}
        /\ UNCHANGED <<docVars, clock, inEdit, pc, last, budget, tx, docs, loaderCalls,
                       sideVars>>

\* lines 29-70: the reader answers with the text; the document is built and
\* saved, and its references are resolved up to the first await
ReadReturns ==
    \E t \in 1..Len(tasks), texts \in Sources :
        LET uri == tasks[t].doc
            smts == [k \in 1..Len(texts) |-> Statement(texts[k], clock + k)]
            saved == [docs EXCEPT ![uri] = [NoDoc EXCEPT !.exists = TRUE,
                                                        !.statements = smts]]
            begun == BeginReferences(saved, uri, <<>>, UriOnly(smts), tasks[t].parent)
        IN  /\ tasks[t].phase = "read"
            /\ clock' = clock + Len(texts)
            /\ docs' = saved
            /\ events' = Append(events, DocumentCause("DocumentCreate", uri))
            /\ IF Len(UriOnly(smts)) > 0
               THEN /\ tasks' = [tasks EXCEPT ![t] = begun.task]
                    /\ faults' = faults \cup begun.faults
               ELSE /\ tasks' = Finish(tasks, t, "doc")
                    /\ UNCHANGED faults
            /\ UNCHANGED <<statements, disposed, version, uriStatements, dependencies,
                           dependents, loaded, pendingDel, pendingAdd,
                           inEdit, pc, last, budget, tx, loaderCalls,
                       failedLoads, sideVars>>

\* lines 188-231: one turn of the loop, up to the await of line 216 or to the
\* end of the turn
LoopStep ==
    \E t \in 1..Len(tasks) :
    LET task == tasks[t]
        smt == task.proposed[task.i + 1]
        current == docs[task.doc].dependencies
        skipped == [task EXCEPT !.i = @ + 1]
        found == IF IndexOf(current, uriOf(smt)) > -1 THEN uriOf(smt) ELSE ""
        linked == Link(docs, task, TRUE)
    IN  /\ task.phase = "loop"
        /\ task.i < Len(task.proposed)
        /\ IF smt.stamp \in task.faulty
           THEN /\ tasks' = [tasks EXCEPT ![t] = skipped]
                /\ UNCHANGED <<faults, loaderCalls>>
           ELSE IF smt \in Range(task.existing)
           THEN /\ tasks' = [tasks EXCEPT ![t] = [skipped EXCEPT !.deps[task.i + 1] = found]]
                /\ UNCHANGED <<faults, loaderCalls>>
           ELSE IF smt \notin Range(task.added)
           THEN /\ tasks' = [tasks EXCEPT ![t] = skipped]
                /\ UNCHANGED <<faults, loaderCalls>>
           ELSE IF getDocumentByUri(docs, uriOf(smt))
           THEN /\ tasks' = [tasks EXCEPT ![t] = linked.task]
                /\ faults' = faults \cup linked.faults
                /\ UNCHANGED loaderCalls
           ELSE /\ tasks' = Append([tasks EXCEPT ![t].phase = "await"],
                                   ReadTask(uriOf(smt), t))
                /\ loaderCalls' = loaderCalls \cup {smt.stamp}
                /\ UNCHANGED faults
        /\ UNCHANGED <<statements, disposed, version, uriStatements, dependencies,
                       dependents, loaded, events, pendingDel, pendingAdd,
                       clock, inEdit, pc, last, budget, tx, docs, failedLoads, sideVars>>

\* lines 216-231: addDocumentFromUri has answered
Resume ==
    \E t \in 1..Len(tasks) :
    LET linked == Link(docs, tasks[t], tasks[t].result = "doc")
    IN  /\ tasks[t].phase = "resume"
        /\ tasks' = [tasks EXCEPT ![t] = linked.task]
        /\ faults' = faults \cup linked.faults
        /\ UNCHANGED <<statements, disposed, version, uriStatements, dependencies,
                       dependents, loaded, events, pendingDel, pendingAdd,
                       clock, inEdit, pc, last, budget, tx, docs, loaderCalls,
                       failedLoads, sideVars>>

\* lines 233-251, and the return to the caller of Document.new or edit()
Commit ==
    \E t \in 1..Len(tasks) :
    /\ tasks[t].phase = "loop"
    /\ tasks[t].i = Len(tasks[t].proposed)
    /\ docs' = CommitReferences(docs, tasks[t])
    /\ tasks' = Finish(tasks, t, "doc")
    /\ UNCHANGED <<docVars, clock, inEdit, pc, last, budget, tx, loaderCalls,
                       failedLoads, sideVars>>

\* A resolution called with nothing deleted and nothing added.
ResolvesNothing(task) ==
    task.phase # "done" /\ Len(task.deleted) = 0 /\ Len(task.added) = 0

\* The calls of the host's callbacks: one call on a line of the document.
DocCallsAt(len) ==
    {RawDelete(at, 1) : at \in 0..(len - 1)}
    \cup {RawInsert(uri, at) : uri \in DocUris, at \in 0..len}
    \cup {RawUpdate(uri, at) : uri \in DocUris, at \in 0..(len - 1)}

\* lines 782-1188: edit() of a document of the program, up to the first
\* await of its reference resolution; inEdit is cleared before it (line 1185)
EditDocument ==
    \E uri \in DocUris : \E raw \in DocCallsAt(Len(docs[uri].statements)) :
        LET doc == docs[uri]
            rec == editFn(doc.statements, clock, <<raw>>)
            r == Iife(doc.statements, rec.calls)
            dead == disposed \cup r.m.disp
            edited == [docs EXCEPT ![uri].statements = r.m.s]
            begun == BeginReferences(edited, uri, r.m.del, r.m.add, 0)
            published == Append(events \o r.events,
                                DocumentCause("EditComplete", uri))
        IN  /\ doc.exists
            /\ ~doc.inEdit
            /\ budget > 0
            /\ \A t \in 1..Len(tasks) : ~ResolvesNothing(tasks[t])
            /\ raw.op # "delete" =>
                    (getDocumentByUri(docs, raw.text) \/ tasks = <<>>)
            /\ budget' = budget - 1
            /\ clock' = rec.clock
            /\ IF Len(rec.calls) = 0
               THEN UNCHANGED <<docs, tasks, faults, disposed, events>>
               ELSE IF \E k \in 1..Len(r.m.s) : r.m.s[k].stamp \in dead
               THEN /\ docs' = [edited EXCEPT ![uri].inEdit = TRUE]
                    /\ disposed' = dead
                    /\ events' = events \o r.events
                    /\ UNCHANGED <<tasks, faults>>
               ELSE /\ docs' = edited
                    /\ disposed' = dead
                    /\ events' = published
                    /\ IF Len(r.m.del) + Len(r.m.add) > 0
                       THEN /\ tasks' = Append(tasks, [begun.task EXCEPT
                                                !.completed = Len(published)])
                            /\ faults' = faults \cup begun.faults
                       ELSE UNCHANGED <<tasks, faults>>
            /\ UNCHANGED <<statements, version, uriStatements, dependencies,
                           dependents, loaded, pendingDel, pendingAdd,
                           inEdit, pc, last, tx, loaderCalls, failedLoads, sideVars>>

\* updateReferences([], []) of a document, up to its first await, called
\* while nothing else is under way
ResolveNothing ==
    \E uri \in DocUris :
    LET begun == BeginReferences(docs, uri, <<>>, <<>>, 0)
    IN  /\ docs[uri].exists
        /\ tasks = <<>>
        /\ tasks' = Append(tasks, begun.task)
        /\ faults' = faults \cup begun.faults
        /\ UNCHANGED <<statements, disposed, version, uriStatements, dependencies,
                       dependents, loaded, events, pendingDel, pendingAdd,
                       clock, inEdit, pc, last, budget, tx, docs, loaderCalls,
                       failedLoads, sideVars>>

NextProgram ==
    \/ AddDocument
    \/ ReadFails
    \/ ReadReturns
    \/ LoopStep
    \/ Resume
    \/ Commit
    \/ EditDocument
    \/ ResolveNothing

SpecProgram == InitProgram /\ [][NextProgram]_vars

----------------------------------------------------------------------------
\* A client that asks a document for parents and ancestries.

TreeLines == {"A", " B", "  C", "", " "}

TreeSources == {texts \in SeqsUpTo(TreeLines, MaxTree) : Len(texts) > 0}

InitTree == InitOver(TreeSources, FewCalls)

treeFrame == <<docVars, progVars, clock, inEdit, pc, last, budget, tx, graph,
               writer>>

GetParent ==
    \E line \in 0..(Len(statements) - 1) :
        /\ answer' = [op |-> "getParent", line |-> line,
                      parent |-> getParent(statements, line)]
        /\ UNCHANGED treeFrame

GetAncestry ==
    \E line \in 0..(Len(statements) - 1) :
        /\ answer' = [op |-> "getAncestry", line |-> line,
                      ancestry |-> getAncestry(statements, line)]
        /\ UNCHANGED treeFrame

\* line -1 stands for null
GetChildren ==
    \E line \in (-1)..(Len(statements) - 1) :
        /\ answer' = [op |-> "getChildren", line |-> line,
                      children |-> IF line = -1 THEN getChildrenOfNull(statements)
                                   ELSE getChildren(statements, statements[line + 1])]
        /\ UNCHANGED treeFrame

HasDescendants ==
    \E line \in 0..(Len(statements) - 1) :
        /\ answer' = [op |-> "hasDescendants", line |-> line,
                      result |-> hasDescendants(statements, line)]
        /\ UNCHANGED treeFrame

NextTree == GetParent \/ GetAncestry \/ GetChildren \/ HasDescendants

SpecTree == InitTree /\ [][NextTree]_vars

----------------------------------------------------------------------------
\* A program that keeps the phrases of a document: it answers CauseInvalidate
\* with Phrase.deleteRecursive and CauseRevalidate with
\* Phrase.createRecursive, and looks paths up in the graph.

PhraseLines == {"A : X", " B : X", " B : Y"}

PhraseSources == {texts \in SeqsUpTo(PhraseLines, MaxGraphLen) : Len(texts) > 0}

InitGraph == InitOver(PhraseSources, FewCalls)

\* The listeners of the causes of an edit, called as the causes are
\* published: the Invalidate while the document holds pre, the Revalidate
\* once it holds post.
RECURSIVE answerCauses(_, _, _, _)
answerCauses(g, pre, post, evs) ==
    IF Len(evs) = 0 THEN g
    ELSE LET ev == Head(evs)
             after == IF ev.type = "Invalidate" THEN deleteRecursive(g, pre, ev.smts)
                      ELSE IF ev.type = "Revalidate"
                      THEN createRecursive(g, post, ev.smts)
                      ELSE g
         IN  answerCauses(after, pre, post, Tail(evs))

\* The statements of the new document are inflated.
Inflate ==
    /\ ~graph.inflated
    /\ graph' = [createRecursive(graph, statements, statements)
                    EXCEPT !.inflated = TRUE]
    /\ UNCHANGED <<docVars, progVars, clock, inEdit, pc, last, budget, tx, answer,
                   writer>>

\* edit(), lines 782-1189, of a transaction that runs to its end, the
\* listeners answering its causes.
EditGraph ==
    \E raws \in RawLists(Len(statements), budget), loads \in [Uris -> BOOLEAN] :
      \E rec \in {editFn(statements, clock, raws)} :
      \E r \in {Iife(statements, rec.calls)} :
        LET refs == IF Len(r.m.add) + Len(r.m.del) > 0
                    THEN updateReferences(r.m.s, uriStatements, dependencies,
                                          loaded, r.m.del, r.m.add, loads)
                    ELSE [uriStatements |-> uriStatements,
                          dependencies |-> dependencies,
                          faults |-> {}, loaded |-> loaded]
        IN  /\ graph.inflated
            /\ pc = "idle"
            /\ ~EditBlocked
            /\ ~rec.threw
            /\ Len(rec.calls) > 0
            /\ ~r.threw
            /\ \A i \in 1..Len(r.m.s) : r.m.s[i].stamp \notin disposed \cup r.m.disp
            /\ \/ Len(r.m.add) + Len(r.m.del) > 0
               \/ \A u \in Uris : loads[u]
            /\ budget' = budget - Len(raws)
            /\ statements' = r.m.s
            /\ disposed' = disposed \cup r.m.disp
            /\ events' = Append(events \o r.events, CauseEditComplete)
            /\ graph' = answerCauses(graph, statements, r.m.s, r.events)
            /\ version' = VersionStampNext(rec.clock)
            /\ clock' = VersionStampNext(rec.clock)
            /\ uriStatements' = refs.uriStatements
            /\ dependencies' = refs.dependencies
            /\ dependents' = dependentsAfter(dependents, dependencies, refs.dependencies)
            /\ loaded' = refs.loaded
            /\ faults' = faults \cup refs.faults
            /\ last' = "UpdateReferences"
            /\ tx' = [TxOf(raws, rec.calls, r.path) EXCEPT !.done = TRUE]
            /\ UNCHANGED <<pendingDel, pendingAdd, inEdit, pc, progVars, answer,
                           writer>>

NextGraph == Inflate \/ EditGraph

SpecGraph == InitGraph /\ [][NextGraph]_vars

\* The terms of the paths looked up, and the paths.
PathTerms == {"A", "B"}

Paths == {path \in SeqsUpTo(PathTerms, MaxLen) : Len(path) > 0}

lookupFrame == <<docVars, progVars, clock, inEdit, pc, last, budget, tx, writer>>

\* Phrase.fromPathComponents(document, path) and
\* Phrase.fromPathComponents(document, path, clarifier)
Lookup ==
    \E path \in Paths, clarifier \in {<<>>, <<"X">>} :
        LET from == fromPathComponents(graph, path, clarifier)
        IN  /\ graph.inflated
            /\ Cardinality({id \in 1..Len(from.g.phrases) :
                    from.g.phrases[id].isHypothetical}) <= MaxHypothetical
            /\ graph' = from.g
            /\ answer' = [op |-> "fromPathComponents", path |-> path,
                          clarifier |-> clarifier, result |-> from.result]
            /\ UNCHANGED lookupFrame

\* dispose() of a hypothetical phrase a lookup returned or went through
DisposeHypothetical ==
    \E id \in 1..Len(graph.phrases) :
        /\ graph.phrases[id].isHypothetical
        /\ ~graph.phrases[id].isDisposed
        /\ graph' = dispose(graph, id)
        /\ answer' = [op |-> "dispose", phrase |-> id]
        /\ UNCHANGED lookupFrame

NextLookup == Inflate \/ EditGraph \/ Lookup \/ DisposeHypothetical

SpecLookup == InitGraph /\ [][NextLookup]_vars

----------------------------------------------------------------------------
\* A client that parses lines and constructs statements.

ParseAlphabet == {"/", "[", "]", "a", ",", " ", "\t"}

RECURSIVE TextsUpTo(_)
TextsUpTo(n) ==
    IF n = 0 THEN {""}
    ELSE LET shorter == TextsUpTo(n - 1)
         IN  shorter \cup {t \o g : t \in {u \in shorter : Len(u) = n - 1},
                                    g \in ParseAlphabet}

ParseLines == TextsUpTo(MaxLine)

InitParse == InitOver({<<>>}, FewCalls)

Parse ==
    \E text \in ParseLines :
        /\ answer' = [op |-> "parse", text |-> text, line |-> parse(text)]
        /\ UNCHANGED treeFrame

\* new Statement(document, text) of a text that begins no pattern
Construct ==
    \E text \in ParseLines :
        /\ ~peekToken(text, readWhitespace(text, 0), "/")
        /\ answer' = [op |-> "newStatement", text |-> text,
                      statement |-> newStatement(text)]
        /\ UNCHANGED treeFrame

NextParse == Parse \/ Construct

SpecParse == InitParse /\ [][NextParse]_vars

----------------------------------------------------------------------------
\* A client of a writer: it builds a writer over an empty file with a
\* placeholder, and calls insert, update, insertIdentifier, Placeholder.edit
\* and transaction with positions inside the data.  depth counts the
\* transaction calls whose callbacks are running.

WriterTexts == {"a", "b"}
PlaceholderTexts == {"", "a", "ab"}

InitWriter == InitOver({<<>>}, FewCalls)

writerFrame == <<docVars, progVars, clock, inEdit, pc, last, budget, tx, answer,
                 graph>>

\* The writer as a call finds it
called(step) ==
    [writer EXCEPT !.issued = <<>>, !.threw = FALSE, !.step = step,
                   !.calls = @ + 1]

\* The text replaced, or the place of an insertion, is inside an identifier:
\* the start and the end of an identifier are outside it.
landsInside(w, position, length) ==
    \E k \in 1..Len(w.identifiers) :
        LET start == w.identifiers[k].start
            end == start + w.identifiers[k].length
        IN  \/ position < end /\ position + length > start
            \/ start < position /\ position < end

calledAt(step, position, length) ==
    [called(step) EXCEPT !.apart = @ /\ ~landsInside(writer, position, length)]

CanCall == writer.constructed /\ writer.calls < MaxWriterCalls

NewWriter ==
    \E smallDataSize \in 0..MaxSmallData, verySmallDataSize \in 0..MaxSmallData,
       text \in PlaceholderTexts :
        /\ ~writer.constructed
        /\ writer' = NewWriterOf(smallDataSize, verySmallDataSize, text)
        /\ UNCHANGED writerFrame

Insert ==
    \E data \in WriterTexts, position \in 0..MaxData :
        /\ CanCall
        /\ position <= Len(writer.data)
        /\ Len(writer.data) + Len(data) <= MaxData
        /\ writer' = insert(calledAt("insert", position, 0), data, position)
        /\ UNCHANGED writerFrame

Update ==
    \E data \in WriterTexts \cup {""}, length \in 0..MaxData,
       position \in 0..MaxData :
        /\ CanCall
        /\ position + length <= Len(writer.data)
        /\ Len(writer.data) - length + Len(data) <= MaxData
        /\ writer' = update(calledAt("update", position, length), data, length, position)
        /\ UNCHANGED writerFrame

InsertIdentifier ==
    \E position \in 0..MaxData :
        /\ CanCall
        /\ position <= Len(writer.data)
        /\ Len(writer.data) + Len(writer.placeholder) <= MaxData
        /\ writer' = insertIdentifier(calledAt("insertIdentifier", position, 0),
                                      position)
        /\ UNCHANGED writerFrame

PlaceholderEdit ==
    \E newText \in PlaceholderTexts :
        /\ CanCall
        /\ Len(placeholderEdit(called("edit"), newText).data) <= MaxData
        /\ writer' = placeholderEdit(called("edit"), newText)
        /\ UNCHANGED writerFrame

\* writer.transaction(cb) is called: inside a transaction the callback runs
\* inline.
Transaction ==
    /\ CanCall
    /\ writer.depth < MaxDepth
    /\ writer' = [(IF writer.inTransaction THEN called("transaction")
                    ELSE beginTransaction(called("transaction")))
                    EXCEPT !.depth = @ + 1, !.apart = FALSE]
    /\ UNCHANGED writerFrame

\* The callback of the innermost transaction returns.
Return ==
    /\ writer.depth > 0
    /\ LET returned == [writer EXCEPT !.issued = <<>>, !.threw = FALSE,
                                      !.step = "return", !.depth = @ - 1]
       IN  writer' = IF writer.depth = 1 THEN endTransaction(returned)
                     ELSE returned
    /\ UNCHANGED writerFrame

\* The callback of a transaction throws: the error leaves every transaction.
Throw ==
    /\ writer.depth > 0
    /\ writer' = [abortTransaction(writer) EXCEPT !.issued = <<>>,
                                                  !.threw = TRUE,
                                                  !.step = "throw", !.depth = 0]
    /\ UNCHANGED writerFrame

NextWriter ==
    \/ NewWriter
    \/ Insert
    \/ Update
    \/ InsertIdentifier
    \/ PlaceholderEdit
    \/ Transaction
    \/ Return
    \/ Throw

SpecWriter == InitWriter /\ [][NextWriter]_vars

----------------------------------------------------------------------------
\* Properties

\* The causes published by the running / last transaction.
TxEvents == SubSeq(events, tx.base + 1, Len(events))

TextsOf(smts) == [k \in 1..Len(smts) |-> smts[k].text]

\* The statements the transaction took out of the document.
TxRemoved == {s \in Range(tx.pre) : s \notin Range(statements)}

RECURSIVE PairedFrom(_, _)
PairedFrom(evs, pending) ==
    IF Len(evs) = 0 THEN pending = 0
    ELSE IF Head(evs).type = "Invalidate"
         THEN pending = 0 /\ PairedFrom(Tail(evs), 1)
    ELSE IF Head(evs).type = "Revalidate"
         THEN pending = 1 /\ PairedFrom(Tail(evs), 0)
    ELSE pending = 0 /\ PairedFrom(Tail(evs), 0)

C2_State ==
    /\ pc = "iife" =>
        /\ version = tx.version
        /\ \A k \in 1..Len(TxEvents) : TxEvents[k].type # "EditComplete"
    /\ pc = "complete" =>
        /\ version = tx.version
        /\ Last(TxEvents).type = "EditComplete"
        /\ \A k \in 1..(Len(TxEvents) - 1) : TxEvents[k].type # "EditComplete"
    /\ pc = "refs" =>
        /\ version # tx.version
        /\ Last(TxEvents).type = "EditComplete"

C2_Step ==
    /\ version' # version =>
        pc = "complete" /\ Last(TxEvents).type = "EditComplete"
    /\ (\/ uriStatements' # uriStatements
        \/ dependencies' # dependencies
        \/ dependents' # dependents
        \/ loaded' # loaded
        \/ faults' # faults) =>
        pc = "refs" /\ Last(TxEvents).type = "EditComplete" /\ version # tx.version

\* C2: in a transaction that records a call, the Invalidate / Revalidate
\* pair is published before CauseEditComplete, CauseEditComplete before the
\* version stamp changes, and reference resolution starts after both.
C2_Order == [](C2_State) /\ [][C2_Step]_vars

\* Reference resolution is about to start for a transaction that published
\* a pair.
C2_Witness ==
    /\ pc = "refs"
    /\ Len(TxEvents) = 3

\* C3: after the changeset algorithm, the texts of the document are those
\* obtained by applying every recorded call, in recorded order, to the
\* document the transaction started from.
C3_AllCallsApplied ==
    pc = "iife" =>
        TextsOf(statements) = TextsOf(doCalls(Mutation(tx.pre), tx.calls).s)

EditCalls == {"DoubleTransaction", "NoCalls", "FnThrows", "Runs", "IifeThrows"}

\* C4: edit() called while inEdit is set throws DoubleTransaction and leaves
\* the statements, the version, uriStatements, dependencies and the
\* published causes as they are.
C4_DoubleTransaction ==
    [][(inEdit /\ last' \in EditCalls) =>
        /\ last' = "DoubleTransaction"
        /\ UNCHANGED <<statements, disposed, version, uriStatements, dependencies,
                       dependents, loaded, faults, events, inEdit>>]_vars

\* edit() was called, and threw, from a handler of CauseEditComplete.
C4_Witness ==
    /\ last = "DoubleTransaction"
    /\ pc = "complete"

\* C5: no edit() is running => inEdit is false, whatever way the last
\* edit() ended.
C5_GuardCleared == pc = "idle" => ~inEdit

\* The transaction reached doDelete / doInsert / doUpdate: it recorded a
\* call and did not leave by the return of line 1091.
TxApplied == Len(tx.calls) > 0 /\ tx.path # "none"

\* C6: the version never decreases over a transaction, and it increases
\* exactly when the transaction applied a mutation to the statements.
C6_VersionIffMutation ==
    tx.done =>
        /\ version >= tx.version
        /\ (version > tx.version) <=> TxApplied

\* The indexes of an update-only transaction: the lines updated, ascending.
UpdatedLines(calls) == {calls[k].at : k \in 1..Len(calls)}

\* The causes of a transaction that replaced the statements at the lines
\* ats: Invalidate with the old ones, Revalidate with the new ones at the
\* same indexes, EditComplete.
UpdateCauses(ats) ==
    /\ Len(TxEvents) = 3
    /\ TxEvents[1].type = "Invalidate"
    /\ TxEvents[2].type = "Revalidate"
    /\ TxEvents[3].type = "EditComplete"
    /\ Range(TxEvents[1].indexes) = ats
    /\ Len(TxEvents[1].indexes) = Cardinality(ats)
    /\ TxEvents[2].indexes = TxEvents[1].indexes
    /\ Len(TxEvents[1].smts) = Len(TxEvents[1].indexes)
    /\ Len(TxEvents[2].smts) = Len(TxEvents[1].indexes)
    /\ \A k \in 1..Len(TxEvents[1].indexes) :
        /\ TxEvents[1].smts[k] = tx.pre[TxEvents[1].indexes[k] + 1]
        /\ TxEvents[2].smts[k] = statements[TxEvents[1].indexes[k] + 1]
        /\ TxEvents[2].smts[k] # TxEvents[1].smts[k]

\* The callback made update calls only, each on a non-noop statement and
\* with a text of the same indent.
OnlyOpUpdatesMade ==
    /\ Len(tx.raw) > 0
    /\ \A k \in 1..Len(tx.raw) :
        /\ tx.raw[k].op = "update"
        /\ ~isNoop(tx.pre[tx.raw[k].at + 1])
        /\ Indent(tx.raw[k].text) = indentOf(tx.pre[tx.raw[k].at + 1])

\* The same, of the calls recorded.
OnlyOpUpdatesRecorded ==
    /\ Len(tx.calls) > 0
    /\ \A k \in 1..Len(tx.calls) :
        /\ tx.calls[k].op = "update"
        /\ ~isNoop(tx.pre[tx.calls[k].at + 1])
        /\ indentOf(tx.calls[k].smt) = indentOf(tx.pre[tx.calls[k].at + 1])

C8_NoopsSilent ==
    (/\ pc = "iife"
     /\ \A k \in 1..Len(tx.calls) :
            tx.calls[k].op \in {"insert", "update"} => isNoop(tx.calls[k].smt)
     /\ \A s \in TxRemoved : isNoop(s)) =>
        Len(TxEvents) = 0

\* C9: in every CauseInvalidate and CauseRevalidate, indexes is as long as
\* statements, and indexes[k] is the line number statements[k] had in the
\* document when the cause was published.
C9_IndexesAlign ==
    \A n \in 1..Len(events) :
        events[n].type \in {"Invalidate", "Revalidate"} =>
            /\ Len(events[n].indexes) = Len(events[n].smts)
            /\ \A k \in 1..Len(events[n].smts) :
                events[n].indexes[k] = events[n].lines[k]

\* C10: on the pure-delete fast path, CauseInvalidate carries exactly the
\* statements the transaction removes, and CauseRevalidate carries nothing.
C10_DeadAreRemoved ==
    (/\ pc = "iife"
     /\ tx.path = "delete"
     /\ Len(TxEvents) > 0) =>
        /\ Range(TxEvents[1].smts) = TxRemoved
        /\ Len(TxEvents[1].smts) = Cardinality(TxRemoved)
        /\ Len(TxEvents[2].smts) = 0
        /\ Len(TxEvents[2].indexes) = 0

\* C11: when no transaction runs, the statement at index i reports line i,
\* no statement of the document is disposed, and every statement the last
\* transaction removed or replaced is disposed and reports line -1.
C11_LineIsIndex ==
    pc = "idle" =>
        /\ \A i \in 1..Len(statements) :
            /\ statements[i].stamp \notin disposed
            /\ StatementLine(statements, disposed, statements[i])
                    = [threw |-> FALSE, line |-> i - 1]
        /\ \A s \in TxRemoved :
            /\ s.stamp \in disposed
            /\ StatementLine(statements, disposed, s) = [threw |-> FALSE, line |-> -1]

\* The text of the document: the source texts joined by the line terminator
\* (toString(true), lines 1324-1340).
DocText(stmts) == Join(TextsOf(stmts))

\* The offset in the text of the document at column col of line number line.
RECURSIVE OffsetOf(_, _, _)
OffsetOf(stmts, line, col) ==
    IF line = 0 THEN col
    ELSE Len(stmts[1].text) + 1 + OffsetOf(Tail(stmts), line - 1, col)

\* The text with the characters of the range replaced by the text of the edit.
Replaced(stmts, editInfo) ==
    LET text == DocText(stmts)
        from == OffsetOf(stmts, editInfo.startLineNumber, editInfo.startColumn)
        to == OffsetOf(stmts, editInfo.endLineNumber, editInfo.endColumn)
    IN  SubSeq(text, 1, from) \o editInfo.text \o SubSeq(text, to + 1, Len(text))

\* C12: once editAtomic has run the calls of one range edit, the text of the
\* document is the text it had with the characters of the range replaced by
\* the text of the edit.
C12_RangeReplaced ==
    (last \in {"Atomic", "AtomicNoCalls"} /\ tx.edit.hasRange) =>
        DocText(statements) = Replaced(tx.pre, tx.edit)

----------------------------------------------------------------------------
\* The documents of the program

DependenciesOf(uri) == Range(docs[uri].dependencies)

DependentsOf(uri) == Range(docs[uri].dependents)

\* C13: in every state reached by creations, edits and resolutions, for all
\* documents a and b, b is in a.dependencies exactly if a is in b.dependents.
C13_BackLinks ==
    \A a \in DocUris, b \in DocUris :
        b \in DependenciesOf(a) <=> a \in DependentsOf(b)

\* After an edit and with nothing under way, a document depends on another
\* and is among its dependents.
C13_Witness ==
    /\ budget = 0
    /\ tasks = <<>>
    /\ \E a \in DocUris, b \in DocUris :
            /\ a # b
            /\ b \in DependenciesOf(a)
            /\ a \in DependentsOf(b)

\* C14: in every reachable state, whatever the interleaving of the
\* resolutions, no document reaches itself along dependencies.
C14_Acyclic ==
    \A a \in DocUris :
        \A b \in DependenciesOf(a) : ~isUnlinkableIn(docs, a, b)

\* The statements of the document that refer to the URI.
ReferringTo(from, to) ==
    {smt \in Range(docs[from].statements) : uriOf(smt) = to}

\* Document x was loaded first and its resolution loaded y, which refers
\* back to x; no edit has been made and nothing is under way.
LoadedThrough(x, y) ==
    /\ x # y
    /\ tasks = <<>>
    /\ budget = FewCalls
    /\ \E smt \in ReferringTo(x, y) : smt.stamp \in loaderCalls
    /\ ReferringTo(y, x) # {}

\* C15: when x refers to y and y to x and x is loaded first, its resolution
\* loading y, CircularResourceReference is reported on y's statement that
\* refers to x, and y.dependencies does not contain x.
C15_FaultOnSecond ==
    \A x \in DocUris, y \in DocUris :
        LoadedThrough(x, y) =>
            /\ \E smt \in ReferringTo(y, x) :
                    <<"CircularResourceReference", smt.stamp>> \in faults
            /\ x \notin DependenciesOf(y)

\* The dependencies of the document that are the document of the URI.
DependenciesFor(d, uri) ==
    {k \in 1..Len(docs[d].dependencies) : docs[d].dependencies[k] = uri}

\* C16: when a document holds two statements with the same URI, the later
\* one both in the document and in time (loaded together, or inserted
\* after the earlier), DuplicateReference is reported on the later one and
\* not on the earlier one, and dependencies holds at most one document for
\* the URI.
C16_FaultOnLater ==
    \A d \in DocUris :
        \A i \in 1..Len(docs[d].statements), j \in 1..Len(docs[d].statements) :
            LET earlier == docs[d].statements[i]
                later == docs[d].statements[j]
            IN  (/\ tasks = <<>>
                 /\ i < j
                 /\ earlier.stamp < later.stamp
                 /\ uriOf(earlier) = uriOf(later))
                => /\ <<"DuplicateReference", later.stamp>> \in faults
                   /\ <<"DuplicateReference", earlier.stamp>> \notin faults
                   /\ Cardinality(DependenciesFor(d, uriOf(earlier))) <= 1

\* The resolution has been answered for the statement and has not yet taken
\* the answer up.
AnswerPending(stamp) ==
    \E t \in 1..Len(tasks) :
        /\ tasks[t].phase = "resume"
        /\ tasks[t].proposed[tasks[t].i + 1].stamp = stamp

\* Once the failed load of an added statement is taken up, the resolution
\* goes on, UnresolvedResource is on the statement and the statement gives
\* the resolution no dependency.
C17_State ==
    /\ \A stamp \in failedLoads :
            AnswerPending(stamp) \/ <<"UnresolvedResource", stamp>> \in faults
    /\ \A t \in 1..Len(tasks) : \A k \in 1..Len(tasks[t].proposed) :
            (/\ tasks[t].proposed[k].stamp \in failedLoads
             /\ tasks[t].proposed[k] \in Range(tasks[t].added)
             /\ ~AnswerPending(tasks[t].proposed[k].stamp))
            => /\ tasks[t].phase = "loop"
               /\ tasks[t].i >= k
               /\ tasks[t].deps[k] = ""

\* The step in which a load fails adds no document to the program and
\* changes no document.
C17_Step == failedLoads' # failedLoads => docs' = docs

C18_CheckBeforeLoad ==
    \A stamp \in loaderCalls : <<"CircularResourceReference", stamp>> \notin faults

\* What a resolution may change of the documents.
Linkage ==
    [d \in DocUris |-> [dependencies |-> docs[d].dependencies,
                        dependents |-> docs[d].dependents,
                        uriStatements |-> docs[d].uriStatements]]

\* The step is the commit of the task.
Commits(t) ==
    /\ tasks[t].phase = "loop"
    /\ tasks[t].i = Len(tasks[t].proposed)
    /\ docs' = CommitReferences(docs, tasks[t])
    /\ tasks' = Finish(tasks, t, "doc")

\* C19: the commit of a resolution called with nothing added and nothing
\* deleted leaves dependencies, dependents and uriStatements of every
\* document as they were, in the same order.
C19_Step ==
    \A t \in 1..Len(tasks) :
        (ResolvesNothing(tasks[t]) /\ Commits(t)) => Linkage' = Linkage

C19_NothingChanges == [][C19_Step]_vars

\* No edit and no resolution of the document is under way.
NothingPending(d) ==
    /\ docs[d].exists
    /\ ~docs[d].inEdit
    /\ \A t \in 1..Len(tasks) : tasks[t].phase = "done" \/ tasks[t].doc # d

\* C20: whenever nothing of document d is pending, d.uriStatements is the
\* sequence of the URI statements of d, each once and in document order,
\* and so holds no disposed statement.
C20_UriStatements ==
    \A d \in DocUris :
        NothingPending(d) =>
            /\ docs[d].uriStatements = UriOnly(docs[d].statements)
            /\ \A k \in 1..Len(docs[d].uriStatements) :
                    docs[d].uriStatements[k].stamp \notin disposed

\* The faults that updateReferences reports on a URI statement.
ReferenceFaults ==
    {"DuplicateReference", "InsecureResourceReference", "UnresolvedResource",
     "CircularResourceReference"}

\* A reference fault has been reported on the statement.
Faulty(smt) == \E type \in ReferenceFaults : <<type, smt.stamp>> \in faults

\* C21: whenever the resolutions of document d have returned, every URI
\* statement of d on which no reference fault was ever reported has its
\* document in d.dependencies and d in that document's dependents, and
\* every one on which a fault was reported is in uriStatements.
C21_Linked ==
    \A d \in DocUris :
        NothingPending(d) =>
            \A smt \in Range(docs[d].statements) :
                IF Faulty(smt)
                THEN smt \in Range(docs[d].uriStatements)
                ELSE /\ uriOf(smt) \in DependenciesOf(d)
                     /\ d \in DependentsOf(uriOf(smt))

\* The documents that the resolution of the task had loaded: the documents
\* of the added statements the loader was called for.
LoadedBy(task) ==
    {uriOf(smt) : smt \in {a \in Range(task.added) : a.stamp \in loaderCalls}}

\* C22: when an edit of document A adds a URI statement whose document B
\* is not loaded, the CauseDocumentCreate of B is published before the
\* CauseEditComplete of that edit.
C22_CreateBeforeComplete ==
    \A t \in 1..Len(tasks) :
        tasks[t].completed > 0 =>
            \A k \in 1..Len(events) :
                (\E uri \in LoadedBy(tasks[t]) :
                    events[k] = DocumentCause("DocumentCreate", uri))
                => k < tasks[t].completed

\* The statement is an op statement on a line before the given one, with
\* a smaller indent than the statement of that line.
Above(smt, line) ==
    /\ ~isNoop(smt)
    /\ IndexOf(statements, smt) > -1
    /\ IndexOf(statements, smt) < line
    /\ indentOf(smt) < indentOf(statements[line + 1])

\* C23: for every op statement s of a document, a parent that is a
\* statement is an op statement on an earlier line with a smaller indent;
\* the ancestry lists op statements of earlier lines, nearest last, with
\* strictly increasing indents all smaller than that of s; its last
\* element is the parent, and it is empty exactly when the parent is the
\* document.
C23_Ancestry ==
    \A line \in 0..(Len(statements) - 1) :
        LET parent == getParent(statements, line)
            ancestry == getAncestry(statements, line)
        IN  ~isNoop(statements[line + 1]) =>
                /\ parent.kind \in {"doc", "smt"}
                /\ parent.kind = "smt" => Above(parent.smt, line)
                /\ \A k \in 1..Len(ancestry) : Above(ancestry[k], line)
                /\ \A k \in 1..(Len(ancestry) - 1) :
                        /\ indentOf(ancestry[k]) < indentOf(ancestry[k + 1])
                        /\ IndexOf(statements, ancestry[k])
                                < IndexOf(statements, ancestry[k + 1])
                /\ Len(ancestry) = 0 <=> parent.kind = "doc"
                /\ Len(ancestry) > 0 => Last(ancestry) = parent.smt

\* Both queries have been asked of a document where a statement has two
\* ancestors and a noop line between them.
C23_Witness ==
    /\ answer.op = "getAncestry"
    /\ Len(answer.ancestry) = 2
    /\ \E line \in 0..(Len(statements) - 1) :
            /\ isNoop(statements[line + 1])
            /\ IndexOf(statements, answer.ancestry[1]) < line
            /\ line < answer.line

\* The phrases of the document that stand for a declaration: not the root,
\* not hypothetical, not disposed.
LivePhrases ==
    {id \in 2..Len(graph.phrases) :
        /\ ~graph.phrases[id].isHypothetical
        /\ ~graph.phrases[id].isDisposed}

\* C24: once the statements are inflated and after any edit transaction
\* answered with deleteRecursive and createRecursive, every phrase that is
\* not hypothetical, not the root and not disposed is the one its parent
\* forwards to under its terminal and clarifier key and has an inflating
\* span, and no forwarding map holds a disposed phrase.
C24_PhraseInvariant ==
    /\ \A id \in LivePhrases :
        LET p == graph.phrases[id]
        IN  /\ forwardingsGet(graph, p.parent, p.terminal, p.clarifierKey) = id
            /\ p.inflatingSpans # {}
    /\ \A id \in 1..Len(graph.phrases) :
        \A f \in graph.phrases[id].forwardings :
            ~graph.phrases[f.phrase].isDisposed

\* An edit has deflated a phrase to its disposal and inflated a new one,
\* and a phrase of before the edit is still live.
C24_Witness ==
    /\ graph.inflated
    /\ tx.done
    /\ \E gone \in 2..Len(graph.phrases), new \in LivePhrases, old \in LivePhrases :
        /\ graph.phrases[gone].isDisposed
        /\ old < gone
        /\ gone < new

\* A term of the path after the first finds more than one phrase: a
\* homograph beyond the first level.
RECURSIVE Ambiguous(_, _)
Ambiguous(current, pathTerms) ==
    IF Len(pathTerms) = 0 THEN FALSE
    ELSE LET found == {f.phrase : f \in {h \in graph.phrases[current].forwardings :
                                            h.subject = Head(pathTerms)}}
         IN  IF Cardinality(found) > 1 THEN TRUE
             ELSE IF Cardinality(found) = 0 THEN FALSE
             ELSE Ambiguous(CHOOSE id \in found : TRUE, Tail(pathTerms))

\* The phrases of the first level a lookup starts from.
FirstLevel(path, clarifier) ==
    {f.phrase : f \in {h \in graph.phrases[1].forwardings :
        /\ h.subject = Head(path)
        /\ Len(clarifier) > 0 => h.key = getClarifierKey(clarifier)}}

\* C25: when a lookup meets a homograph beyond the first level, the form
\* without clarifier answers an empty array and the form with a clarifier
\* answers null.
C25_HomographAnswer ==
    (/\ answer.op = "fromPathComponents"
     /\ \E first \in FirstLevel(answer.path, answer.clarifier) :
            Ambiguous(first, Tail(answer.path)))
    => IF Len(answer.clarifier) = 0
       THEN answer.result = ArrayResult(<<>>)
       ELSE answer.result = NullResult

\* What the forwarding maps of the document hold, and the queue.
Registered(g) ==
    {<<id, f>> : id \in 1..Len(g.phrases), f \in UNION {g.phrases[i].forwardings : i \in 1..Len(g.phrases)}}
    \cap UNION {{<<id, f>> : f \in g.phrases[id].forwardings} : id \in 1..Len(g.phrases)}

UnterminatedSet(text) ==
    LET indent == readWhitespace(text, 0)
    IN  /\ peekToken(text, indent, "/")
        /\ ~peekToken(text, indent, "//")
        /\ \E i \in (indent + 1)..(Len(text) - 1) :
            /\ graphemeAt(text, i) = "["
            /\ \A j \in (i + 1)..(Len(text) - 1) : graphemeAt(text, j) # "]"

\* C27: the parse of a line never throws, and the line of a pattern with an
\* unterminated set is flagged unparsable.
C27_ParseNeverThrows ==
    answer.op = "parse" =>
        /\ ~answer.line.threw
        /\ UnterminatedSet(answer.text) => "isUnparsable" \in answer.line.flags

C29_FileIsData ==
    (writer.constructed /\ ~writer.inTransaction) => writer.file = writer.data

textOf(w, k) ==
    Slice(w.data, w.identifiers[k].start,
          w.identifiers[k].start + w.identifiers[k].length)

\* C31 (after insert, update, insertIdentifier and Placeholder.edit calls of
\* which no insert or update landed inside an identifier, the start of an
\* identifier being outside it, every identifier record names the text of
\* the placeholder in the data)
C31_IdentifiersNameText ==
    (writer.constructed /\ writer.apart)
        => \A k \in 1..Len(writer.identifiers) :
                textOf(writer, k) = writer.placeholder

\* The statements of the document that the delete calls of the transaction
\* take out.
TxDeleted ==
    {s \in Range(doCalls(Mutation(tx.pre), tx.calls).removed) : s \in Range(tx.pre)}

\* The ancestors a statement of the document has.
AncestorsIn(stmts, smt) == Range(getAncestry(stmts, IndexOf(stmts, smt)))

\* C32 (on the general path, for every statement that is no no-op and that a
\* delete call of the transaction takes out, CauseInvalidate carries no
\* statement, the whole document being invalidated, or carries an ancestor of
\* the statement)
C32_DeletedAreCovered ==
    (/\ pc = "iife"
     /\ tx.path = "general"
     /\ Len(TxEvents) > 0) =>
        \A d \in TxDeleted :
            ~isNoop(d) =>
                \/ Len(TxEvents[1].smts) = 0
                \/ \E k \in 1..Len(TxEvents[1].smts) :
                        TxEvents[1].smts[k] \in AncestorsIn(tx.pre, d)

\* C33 (on the general path, no statement that CauseInvalidate carries is a
\* descendant of another statement it carries)
C33_OnlyHighest ==
    (/\ pc = "iife"
     /\ tx.path = "general"
     /\ Len(TxEvents) > 0) =>
        \A j, k \in 1..Len(TxEvents[1].smts) :
            TxEvents[1].smts[j] \notin AncestorsIn(tx.pre, TxEvents[1].smts[k])

\* C34 (every statement that the CauseRevalidate of a transaction carries is,
\* when the cause is published, a statement of the document that is not
\* disposed: an invalidated parent that a delete call took out or an update
\* call replaced is not carried)
C34_RevalidatedAreLive ==
    (pc = "iife") =>
        \A n \in 1..Len(TxEvents) :
            TxEvents[n].type = "Revalidate" =>
                \A k \in 1..Len(TxEvents[n].smts) :
                    /\ TxEvents[n].smts[k] \in Range(statements)
                    /\ TxEvents[n].smts[k].stamp \notin disposed

\* C35 (on the general path, when CauseInvalidate is published with no
\* statements and no indexes, the whole document being invalidated, the
\* CauseRevalidate that follows it carries no statements and no indexes)
C35_WholeDocumentPair ==
    (/\ pc = "iife"
     /\ tx.path = "general"
     /\ Len(TxEvents) > 1
     /\ Len(TxEvents[1].smts) = 0
     /\ Len(TxEvents[1].indexes) = 0) =>
        /\ TxEvents[2].type = "Revalidate"
        /\ Len(TxEvents[2].smts) = 0
        /\ Len(TxEvents[2].indexes) = 0

\* The parent of the statement of a line: the document, none, or the line of
\* the parent statement.
ParentPlace(stmts, line) ==
    LET parent == getParent(stmts, line)
    IN  [kind |-> parent.kind,
         line |-> IF parent.kind = "smt" THEN IndexOf(stmts, parent.smt) ELSE -1]

\* C36 (a transaction on the pure-update fast path changes the parent of no
\* statement it does not replace, a replaced statement being the same as its
\* replacement, also when a no-op is replaced by a statement of the same
\* indent that is no no-op, or the reverse)
C36_UpdateKeepsParents ==
    (/\ pc = "iife"
     /\ tx.path = "update") =>
        \A i \in 0..(Len(statements) - 1) :
            tx.pre[i + 1] = statements[i + 1] =>
                ParentPlace(tx.pre, i) = ParentPlace(statements, i)

\* The phrase the spans of a spine lead to through the forwardings as they
\* stand (the lookups of lines 203-217, no phrase constructed): 0 when a
\* forwarding is missing.
RECURSIVE findSpine(_, _, _)
findSpine(g, current, spine) ==
    IF Len(spine) = 0 THEN current
    ELSE LET found == forwardingsGet(g, current, DeclarationOf(Head(spine)),
                        getClarifierKey(AnnotationsOf(Head(spine))))
         IN  IF found = 0 THEN 0 ELSE findSpine(g, found, Tail(spine))

\* C37 (once the statements are inflated and after any edit answered with
\* deleteRecursive and createRecursive, the declaration of every statement of
\* the document is an inflating span of the phrase it produces, also when the
\* phrase existed before; so the phrase of a declaration that is still in the
\* document is registered and not disposed)
C37_SpansInflate ==
    graph.inflated =>
        \A i \in 1..Len(statements) :
            ~isNoop(statements[i]) =>
                LET id == findSpine(graph, 1, spineOf(statements, statements[i]))
                IN  /\ id # 0
                    /\ ~graph.phrases[id].isDisposed
                    /\ statements[i].stamp \in graph.phrases[id].inflatingSpans

\* The phrases some forwarding map of the graph holds.
ForwardedBy(g) ==
    {f.phrase : f \in UNION {g.phrases[id].forwardings : id \in 1..Len(g.phrases)}}

\* No declaration of the statement and its descendants leads to a phrase of
\* the graph.
NotInTrie(g, stmts, smt) ==
    \A k \in 1..Len(enumerate(stmts, <<smt>>)) :
        findSpine(g, 1, spineOf(stmts, enumerate(stmts, <<smt>>)[k])) = 0

\* C38 (for a statement of the document, with its descendants, whose phrases
\* are not in the graph: deleteRecursive constructs no phrase, and
\* createRecursive followed by deleteRecursive leaves every forwarding map as
\* it was and registers no phrase)
C38_DeleteUndoesCreate ==
    \A i \in 1..Len(statements) :
        (~isNoop(statements[i]) /\ NotInTrie(graph, statements, statements[i])) =>
            \E created \in {createRecursive(graph, statements, <<statements[i]>>)} :
            \E deleted \in {deleteRecursive(created, statements, <<statements[i]>>)} :
                /\ Len(deleted.phrases) = Len(created.phrases)
                /\ \A id \in 1..Len(graph.phrases) :
                    deleted.phrases[id].forwardings = graph.phrases[id].forwardings
                /\ ForwardedBy(deleted) = ForwardedBy(graph)

\* phrase.clarifiers: the terms of the annotations of the inflating
\* statement (line 284); the texts used here hold one annotation at most, so
\* they are the term of the clarifier key.
clarifiersOf(g, id) ==
    IF g.phrases[id].clarifierKey = "" THEN <<>> ELSE <<g.phrases[id].clarifierKey>>

\* Phrase.ancestry, lines 553-570: the phrases from below the root of the
\* document down to the phrase itself.
RECURSIVE ancestry(_, _)
ancestry(g, id) ==
    IF id = 1 THEN <<>> ELSE Append(ancestry(g, g.phrases[id].parent), id)

\* The text of the document the loader answers with for a URI, and the
\* phrases of that document once its statements are inflated.
loadedText(uri) == <<"X", "Y">>

dependencyGraph(uri) ==
    LET smts == [k \in 1..Len(loadedText(uri)) |-> Statement(loadedText(uri)[k], k + 1)]
    IN  createRecursive(NoGraph, smts, smts)

\* Document.traverseDependencies(): the documents of the transitive
\* dependency closure; the documents referred to hold no reference
\* themselves.
traverseDependencies(deps) == deps

\* A phrase of a document: "" names the document of the graph.
PhraseOf(uri, id) == [doc |-> uri, phrase |-> id]

\* The loop of lines 692-696 over the ancestor phrases that are left.
RECURSIVE successorsLoop(_, _, _, _)
successorsLoop(g, ancestors, term, successors) ==
    IF Len(ancestors) = 0 THEN successors
    ELSE LET phrases == peek(g, Head(ancestors), term, "", FALSE)
         IN  successorsLoop(g, Tail(ancestors), term,
                [k \in 1..Len(phrases) |-> PhraseOf("", phrases[k])] \o successors)

\* Phrase.outbounds, lines 674-703, of a phrase that is not hypothetical, when
\* it is read first: globalAncestry (lines 683-686) is built and not read.
outbounds(g, id, deps) ==
    [k \in 1..Len(clarifiersOf(g, id)) |->
        [origin |-> id,
         successors |-> successorsLoop(g, ancestry(g, id), clarifiersOf(g, id)[k], <<>>),
         via |-> clarifiersOf(g, id)[k]]]

\* C39 (for every phrase that is not hypothetical and every clarifier term
\* of it, the successors of its fork via the term hold every phrase peek(term)
\* returns on each phrase of its ancestry and on the root phrase of every
\* document its document depends on)
C39_ForkSuccessors ==
    \A id \in LivePhrases :
        \A k \in 1..Len(outbounds(graph, id, dependencies)) :
            LET fork == outbounds(graph, id, dependencies)[k]
            IN  /\ \A a \in Range(ancestry(graph, id)) :
                    \A ph \in Range(peek(graph, a, fork.via, "", FALSE)) :
                        PhraseOf("", ph) \in Range(fork.successors)
                /\ \A uri \in Range(traverseDependencies(dependencies)) :
                    \A ph \in Range(peek(dependencyGraph(uri), 1, fork.via, "", FALSE)) :
                        PhraseOf(uri, ph) \in Range(fork.successors)

\* The lines, in document order, of the statements that are no no-ops and
\* have the given parent.
ChildrenByParent(stmts, parent) ==
    Ascending({i \in 0..(Len(stmts) - 1) :
                /\ ~isNoop(stmts[i + 1])
                /\ getParent(stmts, i) = parent})

\* C40 (for every document, whatever its indentation and no-op lines:
\* getChildren of a statement that is no no-op is the list, in document order,
\* of the statements that are no no-ops and have it as getParent;
\* getChildren(null) is the list of those whose getParent is the document;
\* hasDescendants of the statement is true exactly when getChildren of it is
\* not empty)
C40_ChildrenInvertParent ==
    /\ getChildrenOfNull(statements) = ChildrenByParent(statements, DocParent)
    /\ \A line \in 0..(Len(statements) - 1) :
        ~isNoop(statements[line + 1]) =>
            /\ getChildren(statements, statements[line + 1])
                    = ChildrenByParent(statements, SmtParent(statements[line + 1]))
            /\ hasDescendants(statements, line)
                    <=> Len(getChildren(statements, statements[line + 1])) > 0

\* getChildren has answered with two children of a statement, the first
\* indented deeper than the second, with a no-op line between them.
C40_Witness ==
    /\ answer.op = "getChildren"
    /\ answer.line >= 0
    /\ Len(answer.children) = 2
    /\ indentOf(statements[answer.children[1] + 1])
            > indentOf(statements[answer.children[2] + 1])
    /\ \E line \in 0..(Len(statements) - 1) :
            /\ isNoop(statements[line + 1])
            /\ answer.children[1] < line
            /\ line < answer.children[2]

====
